---------------------------- MODULE Spec2Model ----------------------------
(***************************************************************************)
(* A model of the API monetization gateway: the key resolver               *)
(* (CustomerService.findByApiKey), the daily rate limiter                  *)
(* (RateLimitService.checkAndIncrement), the request pipeline              *)
(* (ApiKeyMiddleware.use, ProxyService.forwardRequests,                    *)
(* UsageTrackingInterceptor.intercept), the usage buffers                  *)
(* (UsageTrackingService.addUsageLog) and the drain task                   *)
(* (JobsService.flushToDb).                                                *)
(*                                                                         *)
(* Every await of the source is a step of its own: a fast-store or         *)
(* durable-store command takes effect atomically, and the synchronous code *)
(* that follows the await runs in the same step as the command's reply.    *)
(* Time is a counter of ticks; a day is DayLen ticks and the cache TTL is   *)
(* CacheTtl ticks.                                                         *)
(***************************************************************************)
EXTENDS Integers, Sequences, FiniteSets, TLC

(***************************************************************************)
(* Bounds of the model.                                                    *)
(***************************************************************************)
MaxTime == 4
DayLen == 3
MaxQuota == 2
MaxAdmitted == 4
NumProcs == 2
KeyExpiry == 1
\* the 300 seconds of setex(redisCacheKey, 300, ...), in ticks
CacheTtl == 2
MaxRecords == 3
MaxUpstream == 2
\* MAX_LOGS_PER_CUSTOMER = 1000 and MAX_LOGS_TOTAL = 5000, scaled down
MaxLogsPerCustomer == 1
MaxLogsTotal == 2
\* the 100 entries of lrange('usage:logs:all', 0, 99), scaled down
FlushBatch == 1
\* the calendar, scaled down: months of LongMonth and ShortMonth days in
\* turn, MonthsPerYear months a year
LongMonth == 3
ShortMonth == 2
MonthsPerYear == 2
\* the 7 days of dueDate.setDate(dueDate.getDate() + 7), scaled down
DueDays == 1
\* the 10 years of getFullYear() > now.getFullYear() + 10, scaled down
FutureYears == 2
MaxInvoices == 2
\* the 7 days of daysUntilEnd > 7, scaled down
BulkSoonDays == 1
\* the digits of a sequence number: 10 in the code, and padStart(3, '0')
SeqBase == 3
SeqPad == 1
MaxUsageRows == 2

NoVal == -1

Procs == 1..NumProcs
Times == 0..MaxTime
Days == 0..(MaxTime \div DayLen)
Customers == {"c1"}
\* the customers of the billing application; "c9" is the id of no customer
BillCustomers == {"c1", "c2"}
CustomerIds == BillCustomers \cup {"c9"}
\* the secrets a request can present: "k1" has a row in ApiKey, "kx" has none
Secrets == {"k1", "kx"}
Methods == {"GET", "POST", "PUT", "DELETE", "PATCH", "HEAD", "OPTIONS"}

VARIABLES
  now,            \* the wall clock, in ticks
  tierRateLimit,  \* Tier.rateLimit of the customer's tier
  rate,           \* fast store: the hash rate:limit:{customerId}
  rl,             \* the checkAndIncrement call of each handler
  apiKeys,        \* durable store: the ApiKey rows, by secret
  customerActive, \* durable store: Customer.isActive
  cache,          \* fast store: customer:apiKey:{secret}, with its expiry
  fb,             \* the findByApiKey call of each handler
  deactivatedAt,  \* history: when the key or its customer was deactivated
  rq,             \* the proxy request of each handler
  upstreamCalls,  \* how many calls the forwarder has issued to the upstream
  custBuf,        \* fast store: the lists usage:logs:{customerId}
  globalBuf,      \* fast store: the list usage:logs:all
  ul,             \* the addUsageLog call of each handler
  nextId,         \* history: the identity of the next usage record
  pushed,         \* history: the records pushed to usage:logs:all
  evicted,        \* history: a trim of usage:logs:all has dropped a record
  fl,             \* the drain task flushToDb
  usageRows,      \* durable store: the UsageHistory rows, per record
  dbFailed,       \* history: a bulk insert has failed
  invoices,       \* durable store: the Invoice rows, by id
  lineItems,      \* durable store: the InvoiceLineItem rows, by id
  usageHistory,   \* durable store: the UsageHistory rows the billing
                  \* application counts, as (customer, timestamp)
  gi,             \* the generateInvoice call of each handler
  lastOp,         \* history: the latest status operation on the invoices
  bp,             \* the latest getCurrentBillingPeriod call and its result
  dj,             \* the scheduled job generateDailyInvoices
  mj,             \* the bulk job generateMonthlyInvoices
  br,             \* the last invoice request on the gateway's billing mount
  admittedSinceReset,  \* history: calls allowed since the last reset
  admittedDay          \* history: calls allowed, by the day they were made in

limiterVars == <<rate, rl, admittedSinceReset, admittedDay>>
dbVars == <<apiKeys, customerActive, deactivatedAt>>
resolverVars == <<cache, fb>>
gatewayVars == <<rq, upstreamCalls>>
bufferVars == <<custBuf, globalBuf, ul, nextId, pushed, evicted>>
drainVars == <<fl, usageRows, dbFailed>>
billingVars == <<invoices, lineItems, usageHistory, gi, lastOp, bp, dj, mj,
                 br>>
notLimiter == <<now, tierRateLimit, dbVars, resolverVars, gatewayVars,
                bufferVars, drainVars, billingVars>>
notResolver == <<now, tierRateLimit, dbVars, limiterVars, gatewayVars,
                 bufferVars, drainVars, billingVars>>
notBuffers == <<now, tierRateLimit, dbVars, resolverVars, limiterVars,
                gatewayVars, drainVars, billingVars>>
notRq == <<now, tierRateLimit, dbVars, resolverVars, limiterVars,
           upstreamCalls, bufferVars, drainVars, billingVars>>
notDrain == <<now, tierRateLimit, dbVars, resolverVars, limiterVars,
              gatewayVars, custBuf, ul, nextId, pushed, evicted,
              billingVars>>
notBilling == <<now, tierRateLimit, dbVars, resolverVars, limiterVars,
                gatewayVars, bufferVars, drainVars, lastOp, bp, dj, mj, br>>
notPeriod == <<now, tierRateLimit, dbVars, resolverVars, limiterVars,
               gatewayVars, bufferVars, drainVars, invoices, lineItems,
               usageHistory, gi, lastOp, dj, mj, br>>
notJob == <<now, tierRateLimit, dbVars, resolverVars, limiterVars,
            gatewayVars, bufferVars, drainVars, invoices, lineItems,
            usageHistory, lastOp, bp, mj, br>>
notBulk == <<now, tierRateLimit, dbVars, resolverVars, limiterVars,
             gatewayVars, bufferVars, drainVars, invoices, lineItems,
             usageHistory, lastOp, bp, dj, br>>
notBillingMount == <<now, tierRateLimit, dbVars, resolverVars, limiterVars,
                     gatewayVars, bufferVars, drainVars, lineItems,
                     usageHistory, gi, bp, dj, mj>>
notStatus == <<now, tierRateLimit, dbVars, resolverVars, limiterVars,
               gatewayVars, bufferVars, drainVars, lineItems, usageHistory,
               gi, bp, dj, mj, br>>
vars == <<now, tierRateLimit, dbVars, resolverVars, limiterVars, gatewayVars,
          bufferVars, drainVars, billingVars>>

(***************************************************************************)
(* RateLimitService.checkAndIncrement                                      *)
(***************************************************************************)
\* new Date(); setHours(24, 0, 0, 0): the midnight that ends the day of t.
NextMidnight(t) == ((t \div DayLen) + 1) * DayLen

DayOf(t) == t \div DayLen

EmptyHash == [count |-> NoVal, resetAt |-> NoVal]

\* !userUsage || Object.keys(userUsage).length === 0
HashIsEmpty(h) == h.count = NoVal /\ h.resetAt = NoVal

\* resetAt < now, false for the Invalid Date of a hash without resetAt
WindowExpired(h, t) == h.resetAt # NoVal /\ h.resetAt < t

\* the limit check off by one: usageCount > limit
LimitReachedOffByOne(count, limit) == count > limit

\* usageCount >= limit
LimitReached(count, limit) == count >= limit

RlIdle == [pc |-> "idle", customer |-> "c1", limit |-> 0, now0 |-> 0,
           usage |-> EmptyHash, resetAt |-> NoVal,
           allowed |-> FALSE, remaining |-> 0]

RlFree(p) == rl[p].pc = "idle"

\* const now = new Date(); the hgetAll command is sent
CaiBegin(p, c, limit) ==
  rl' = [rl EXCEPT ![p] = [RlIdle EXCEPT !.pc = "hgetall", !.customer = c,
                                         !.limit = limit, !.now0 = now]]

\* hgetAll replies with an empty hash, or with a resetAt in the past: the
\* new resetAt is computed and the count is written next
CaiReset(p) ==
  LET c == rl[p].customer
      h == rate[c]
  IN /\ rl[p].pc = "hgetall"
     /\ HashIsEmpty(h) \/ WindowExpired(h, rl[p].now0)
     /\ rl' = [rl EXCEPT ![p].pc = "hsetCount", ![p].usage = h,
                         ![p].resetAt = NextMidnight(now)]
     /\ UNCHANGED <<rate, admittedSinceReset, admittedDay>>
     /\ UNCHANGED notLimiter

\* hgetAll replies within the window with count >= limit: denied, no write
\* a denial that counts the denied call
CaiDenyCounting(p) ==
  /\ rl[p].pc = "hgetall"
  /\ ~HashIsEmpty(rate[rl[p].customer])
  /\ ~WindowExpired(rate[rl[p].customer], rl[p].now0)
  /\ LimitReached(rate[rl[p].customer].count, rl[p].limit)
  /\ rate' = [rate EXCEPT ![rl[p].customer].count = @ + 1]
  /\ rl' = [rl EXCEPT ![p].pc = "done", ![p].usage = rate[rl[p].customer],
                      ![p].allowed = FALSE, ![p].remaining = 0]
  /\ UNCHANGED <<admittedSinceReset, admittedDay>>
  /\ UNCHANGED notLimiter

CaiDeny(p) ==
  LET c == rl[p].customer
      h == rate[c]
  IN /\ rl[p].pc = "hgetall"
     /\ ~HashIsEmpty(h) /\ ~WindowExpired(h, rl[p].now0)
     /\ LimitReached(h.count, rl[p].limit)
     /\ rl' = [rl EXCEPT ![p].pc = "done", ![p].usage = h,
                         ![p].allowed = FALSE, ![p].remaining = 0]
     /\ UNCHANGED <<rate, admittedSinceReset, admittedDay>>
     /\ UNCHANGED notLimiter

\* hgetAll replies within the window with count < limit: the increment is
\* written next
CaiUnderLimit(p) ==
  LET c == rl[p].customer
      h == rate[c]
  IN /\ rl[p].pc = "hgetall"
     /\ ~HashIsEmpty(h) /\ ~WindowExpired(h, rl[p].now0)
     /\ ~LimitReached(h.count, rl[p].limit)
     /\ rl' = [rl EXCEPT ![p].pc = "hsetIncr", ![p].usage = h]
     /\ UNCHANGED <<rate, admittedSinceReset, admittedDay>>
     /\ UNCHANGED notLimiter

\* hset(key, 'count', 1)
CaiHSetCount(p) ==
  /\ rl[p].pc = "hsetCount"
  /\ rate' = [rate EXCEPT ![rl[p].customer].count = 1]
  /\ rl' = [rl EXCEPT ![p].pc = "hsetResetAt"]
  /\ UNCHANGED <<admittedSinceReset, admittedDay>>
  /\ UNCHANGED notLimiter

\* hset(key, 'resetAt', resetAt); return allowed, remaining: limit - 1
CaiHSetResetAt(p) ==
  /\ rl[p].pc = "hsetResetAt"
  /\ rate' = [rate EXCEPT ![rl[p].customer].resetAt = rl[p].resetAt]
  /\ rl' = [rl EXCEPT ![p].pc = "done", ![p].allowed = TRUE,
                      ![p].remaining = rl[p].limit - 1]
  /\ admittedSinceReset' = 1
  /\ admittedDay' = [admittedDay EXCEPT ![DayOf(rl[p].now0)] = @ + 1]
  /\ UNCHANGED notLimiter

\* hset(key, 'count', usageCount + 1); return allowed,
\* remaining: limit - usageCount
CaiHSetIncr(p) ==
  /\ rl[p].pc = "hsetIncr"
  /\ rate' = [rate EXCEPT ![rl[p].customer].count = rl[p].usage.count + 1]
  /\ rl' = [rl EXCEPT ![p].pc = "done", ![p].allowed = TRUE,
                      ![p].remaining = rl[p].limit - rl[p].usage.count]
  /\ admittedSinceReset' = admittedSinceReset + 1
  /\ admittedDay' = [admittedDay EXCEPT ![DayOf(rl[p].now0)] = @ + 1]
  /\ UNCHANGED notLimiter

(***************************************************************************)
(* CustomerService.findByApiKey                                            *)
(***************************************************************************)
NoEntry == [present |-> FALSE]
NoRow == [found |-> FALSE, isActive |-> FALSE, expiresAt |-> NoVal,
          customer |-> "c1", customerActive |-> FALSE, at |-> 0]
NoCtx == [customer |-> "c1", rateLimit |-> 0]

\* redis get: a value is there until its TTL has run out
CacheLive(e, t) == e.present /\ t < e.expireAt

\* apiKeyData.expiresAt && new Date(apiKeyData.expiresAt) < new Date()
KeyExpired(row, t) == row.expiresAt # NoVal /\ row.expiresAt < t

\* the rejections without the isActive test
RowRejectedNoActiveCheck(row, t) ==
  KeyExpired(row, t) \/ ~row.customerActive

\* !apiKeyData.isActive, expired, or !apiKeyData.customer.isActive
RowRejected(row, t) ==
  ~row.isActive \/ KeyExpired(row, t) \/ ~row.customerActive

\* apiKey.findFirst({where: {key}, include: {customer: {developer, tier}}})
DbRow(secret) ==
  IF secret \in DOMAIN apiKeys
  THEN [found |-> TRUE, isActive |-> apiKeys[secret].isActive,
        expiresAt |-> apiKeys[secret].expiresAt,
        customer |-> apiKeys[secret].customer,
        customerActive |-> customerActive[apiKeys[secret].customer],
        at |-> now]
  ELSE NoRow

FbIdle == [pc |-> "idle", secret |-> "k1", start |-> 0, row |-> NoRow,
           result |-> "none", ctx |-> NoCtx, wrote |-> FALSE]

FbFree(p) == fb[p].pc = "idle"

\* findByApiKey(apiKey) is entered; the get command is sent
FbBegin(p, secret) ==
  fb' = [fb EXCEPT ![p] = [FbIdle EXCEPT !.pc = "get", !.secret = secret,
                                         !.start = now]]

\* get replies with the cached context: return JSON.parse(cachedData)
FbCacheHit(p) ==
  /\ fb[p].pc = "get"
  /\ CacheLive(cache[fb[p].secret], now)
  /\ fb' = [fb EXCEPT ![p].pc = "done", ![p].result = "ctx",
                      ![p].ctx = cache[fb[p].secret].ctx]
  /\ UNCHANGED cache
  /\ UNCHANGED notResolver

\* get replies null: the database is queried next
FbCacheMiss(p) ==
  /\ fb[p].pc = "get"
  /\ ~CacheLive(cache[fb[p].secret], now)
  /\ fb' = [fb EXCEPT ![p].pc = "db"]
  /\ UNCHANGED cache
  /\ UNCHANGED notResolver

\* get throws: caught, the database is queried next
FbCacheGetFails(p) ==
  /\ fb[p].pc = "get"
  /\ fb' = [fb EXCEPT ![p].pc = "db"]
  /\ UNCHANGED cache
  /\ UNCHANGED notResolver

\* findFirst replies null: return null
FbDbNoRow(p) ==
  /\ fb[p].pc = "db"
  /\ ~DbRow(fb[p].secret).found
  /\ fb' = [fb EXCEPT ![p].pc = "done", ![p].result = "null"]
  /\ UNCHANGED cache
  /\ UNCHANGED notResolver

\* findFirst replies a row that is inactive, expired or of an inactive
\* customer: return null
FbDbRejected(p) ==
  LET row == DbRow(fb[p].secret)
  IN /\ fb[p].pc = "db"
     /\ row.found
     /\ RowRejected(row, now)
     /\ fb' = [fb EXCEPT ![p].pc = "done", ![p].row = row,
                         ![p].result = "null"]
     /\ UNCHANGED cache
     /\ UNCHANGED notResolver

\* findFirst replies a usable row: ret is built and the setex command sent
FbDbFound(p) ==
  LET row == DbRow(fb[p].secret)
  IN /\ fb[p].pc = "db"
     /\ row.found
     /\ ~RowRejected(row, now)
     /\ fb' = [fb EXCEPT ![p].pc = "setex", ![p].row = row,
                         ![p].ctx = [customer |-> row.customer,
                                     rateLimit |-> tierRateLimit]]
     /\ UNCHANGED cache
     /\ UNCHANGED notResolver

\* setex(redisCacheKey, 300, JSON.stringify(ret)); return ret
FbSetex(p) ==
  /\ fb[p].pc = "setex"
  /\ cache' = [cache EXCEPT ![fb[p].secret] =
                 [present |-> TRUE, ctx |-> fb[p].ctx,
                  expireAt |-> now + CacheTtl, row |-> fb[p].row]]
  /\ fb' = [fb EXCEPT ![p].pc = "done", ![p].result = "ctx",
                      ![p].wrote = TRUE]
  /\ UNCHANGED notResolver

\* setex throws, outside the try block: findByApiKey rejects
FbSetexFails(p) ==
  /\ fb[p].pc = "setex"
  /\ fb' = [fb EXCEPT ![p].pc = "done", ![p].result = "error"]
  /\ UNCHANGED cache
  /\ UNCHANGED notResolver

(***************************************************************************)
(* UsageTrackingService.addUsageLog                                        *)
(***************************************************************************)
Min(a, b) == IF a < b THEN a ELSE b

\* lpush(key, value): the new entry becomes the head
LPush(list, v) == <<v>> \o list

\* a trim that keeps the entries at the tail of the list
LTrimKeepingTail(list, start, stop) ==
  SubSeq(list, Len(list) - Min(stop + 1, Len(list)) + 1, Len(list))

\* ltrim(key, start, stop) with 0 <= start and 0 <= stop (0-based, both kept)
LTrim(list, start, stop) == SubSeq(list, start + 1, Min(stop + 1, Len(list)))

\* ltrim(key, start, -1): drop the first start entries
LTrimFrom(list, start) == SubSeq(list, start + 1, Len(list))

\* lrange(key, 0, stop)
LRange(list, stop) == SubSeq(list, 1, Min(stop + 1, Len(list)))

NoRec == [id |-> 0, customer |-> "c1", status |-> 0]

UlIdle == [pc |-> "idle", rec |-> NoRec, failed |-> FALSE,
           pushedCust |-> 0, pushedAll |-> 0]

UlFree(p) == ul[p].pc = "idle"

\* addUsageLog(usage) is entered with a new usage record
UlBegin(p, c, status) ==
  /\ ul' = [ul EXCEPT ![p] = [UlIdle EXCEPT !.pc = "lpushCust",
                 !.rec = [id |-> nextId, customer |-> c, status |-> status]]]
  /\ nextId' = nextId + 1

\* lpush(customerKey, JSON.stringify(usage))
UlLPushCustomer(p) ==
  /\ ul[p].pc = "lpushCust"
  /\ custBuf' = [custBuf EXCEPT ![ul[p].rec.customer] = LPush(@, ul[p].rec)]
  /\ ul' = [ul EXCEPT ![p].pc = "ltrimCust", ![p].pushedCust = @ + 1]
  /\ UNCHANGED <<globalBuf, nextId, pushed, evicted>>
  /\ UNCHANGED notBuffers

\* ltrim(customerKey, 0, MAX_LOGS_PER_CUSTOMER - 1)
UlLTrimCustomer(p) ==
  /\ ul[p].pc = "ltrimCust"
  /\ custBuf' = [custBuf EXCEPT ![ul[p].rec.customer] =
                   LTrim(@, 0, MaxLogsPerCustomer - 1)]
  /\ ul' = [ul EXCEPT ![p].pc = "lpushAll"]
  /\ UNCHANGED <<globalBuf, nextId, pushed, evicted>>
  /\ UNCHANGED notBuffers

\* lpush('usage:logs:all', JSON.stringify(usage))
UlLPushGlobal(p) ==
  /\ ul[p].pc = "lpushAll"
  /\ globalBuf' = LPush(globalBuf, ul[p].rec)
  /\ pushed' = pushed \cup {ul[p].rec.id}
  /\ ul' = [ul EXCEPT ![p].pc = "ltrimAll", ![p].pushedAll = @ + 1]
  /\ UNCHANGED <<custBuf, nextId, evicted>>
  /\ UNCHANGED notBuffers

\* ltrim('usage:logs:all', 0, MAX_LOGS_TOTAL - 1); the call returns
UlLTrimGlobal(p) ==
  /\ ul[p].pc = "ltrimAll"
  /\ globalBuf' = LTrim(globalBuf, 0, MaxLogsTotal - 1)
  /\ evicted' = (evicted \/ Len(globalBuf) > MaxLogsTotal)
  /\ ul' = [ul EXCEPT ![p].pc = "done"]
  /\ UNCHANGED <<custBuf, nextId, pushed>>
  /\ UNCHANGED notBuffers

\* a fast-store command of addUsageLog throws: caught and logged, the call
\* returns
UlFails(p) ==
  /\ ul[p].pc \in {"lpushCust", "ltrimCust", "lpushAll", "ltrimAll"}
  /\ ul' = [ul EXCEPT ![p].pc = "done", ![p].failed = TRUE]
  /\ UNCHANGED <<custBuf, globalBuf, nextId, pushed, evicted>>
  /\ UNCHANGED notBuffers

(***************************************************************************)
(* JobsService.flushToDb                                                   *)
(***************************************************************************)
\* the task between two ticks.  History: seen is the set of records pushed
\* by the time the batch was read; failed, failedBatch and pushedThen say
\* that the previous tick ended in the catch of a createMany error, with
\* the batch it had read and the records pushed by the time it read it
FlIdle == [pc |-> "idle", batch |-> <<>>, seen |-> {}, failed |-> FALSE,
           failedBatch |-> <<>>, pushedThen |-> {}]

\* an entry of usage:logs:all that is not the JSON text of a usage record
MalformedEntry == [id |-> 0, customer |-> "c1", status |-> NoVal]

\* JSON.parse(usageItem) returns a value
Parses(entry) == entry # MalformedEntry

\* @Interval(30000): the drain task fires; the lrange command is sent
FlushStart ==
  /\ fl.pc = "idle"
  /\ fl' = [fl EXCEPT !.pc = "lrange"]
  /\ UNCHANGED <<globalBuf, usageRows, dbFailed>>
  /\ UNCHANGED notDrain

\* lrange('usage:logs:all', 0, 99) replies no entry: return
FlushReadEmpty ==
  /\ fl.pc = "lrange"
  /\ globalBuf = <<>>
  /\ fl' = FlIdle
  /\ UNCHANGED <<globalBuf, usageRows, dbFailed>>
  /\ UNCHANGED notDrain

\* lrange('usage:logs:all', 0, 99) replies the entries at the head; they
\* are parsed and the createMany command is sent
FlushRead ==
  /\ fl.pc = "lrange"
  /\ globalBuf # <<>>
  /\ \A k \in DOMAIN LRange(globalBuf, FlushBatch - 1) :
       Parses(LRange(globalBuf, FlushBatch - 1)[k])
  /\ fl' = [fl EXCEPT !.pc = "createMany",
                      !.batch = LRange(globalBuf, FlushBatch - 1),
                      !.seen = pushed]
  /\ UNCHANGED <<globalBuf, usageRows, dbFailed>>
  /\ UNCHANGED notDrain

\* JSON.parse throws inside lastUsages.map on an entry of the reply: the
\* catch logs, nothing is inserted or trimmed
FlushParseFails ==
  /\ fl.pc = "lrange"
  /\ \E k \in DOMAIN LRange(globalBuf, FlushBatch - 1) :
       ~Parses(LRange(globalBuf, FlushBatch - 1)[k])
  /\ fl' = FlIdle
  /\ UNCHANGED <<globalBuf, usageRows, dbFailed>>
  /\ UNCHANGED notDrain

\* usageHistory.createMany({data: usageData, skipDuplicates: true}): the
\* rows have no key but the autoincrement id, so every entry is inserted
FlushInsert ==
  /\ fl.pc = "createMany"
  /\ usageRows' = [i \in DOMAIN usageRows |->
                     usageRows[i]
                     + Cardinality({k \in DOMAIN fl.batch : fl.batch[k].id = i})]
  /\ fl' = [FlIdle EXCEPT !.pc = "ltrim", !.batch = fl.batch]
  /\ UNCHANGED <<globalBuf, dbFailed>>
  /\ UNCHANGED notDrain

\* a catch that drops the batch it could not insert
FlushInsertFailsTrimming ==
  /\ fl.pc = "createMany"
  /\ fl' = [FlIdle EXCEPT !.failed = TRUE, !.failedBatch = fl.batch,
                          !.pushedThen = fl.seen]
  /\ globalBuf' = LTrimFrom(globalBuf, Len(fl.batch))
  /\ dbFailed' = TRUE
  /\ UNCHANGED usageRows
  /\ UNCHANGED notDrain

\* createMany throws: caught and logged, nothing is trimmed
FlushInsertFails ==
  /\ fl.pc = "createMany"
  /\ fl' = [FlIdle EXCEPT !.failed = TRUE, !.failedBatch = fl.batch,
                          !.pushedThen = fl.seen]
  /\ dbFailed' = TRUE
  /\ UNCHANGED <<globalBuf, usageRows>>
  /\ UNCHANGED notDrain

\* ltrim('usage:logs:all', lastUsages.length, -1)
FlushTrim ==
  /\ fl.pc = "ltrim"
  /\ globalBuf' = LTrimFrom(globalBuf, Len(fl.batch))
  /\ fl' = FlIdle
  /\ UNCHANGED <<usageRows, dbFailed>>
  /\ UNCHANGED notDrain

(***************************************************************************)
(* The proxy request: ApiKeyMiddleware.use, ProxyController with its       *)
(* UsageTrackingInterceptor, ProxyService.forwardRequests                  *)
(***************************************************************************)
\* what a request finds on arrival (history, kept in the request)
Snapshot == [rate |-> rate, cache |-> cache, upstreamCalls |-> upstreamCalls,
             custBuf |-> custBuf, globalBuf |-> globalBuf]

NoSnap == [rate |-> [c \in Customers |-> EmptyHash],
           cache |-> [s \in Secrets |-> NoEntry],
           upstreamCalls |-> 0,
           custBuf |-> [c \in Customers |-> <<>>],
           globalBuf |-> <<>>]

\* api.targetUrl of the configuration: TARGET_API_URL or its default
ConfigTargetUrl == "https://httpbin.org"

\* Developer.apiUrl of the developer that owns customer c (in the seed data
\* the second developer, whose URL is not the configured one)
DeveloperApiUrl(c) == "https://jsonplaceholder.typicode.com"

\* the base of targetUrl in forwardRequests: req.developer is read and not
\* used
TargetBaseUrl(ctx) == ConfigTargetUrl

RqIdle == [pc |-> "idle", secret |-> "none", method |-> "GET", status |-> 0,
           ctx |-> NoCtx, admitted |-> FALSE, upstream |-> "none",
           target |-> "none", snap |-> NoSnap]

RqFree(p) == rq[p].pc = "idle" /\ FbFree(p) /\ RlFree(p) /\ UlFree(p)

\* the switch of forwardRequests
MethodSupported(m) == m \in {"GET", "POST", "PUT", "DELETE"}

\* the status of a handler that returns: 201 for POST, 200 otherwise
SuccessStatus(m) == IF m = "POST" THEN 201 ELSE 200

\* if (!apiKey) throw new UnauthorizedException('Missing API key')
MwMissingKey(p) ==
  /\ rq[p].pc = "mw"
  /\ rq[p].secret = "none"
  /\ rq' = [rq EXCEPT ![p].pc = "done", ![p].status = 401]
  /\ UNCHANGED notRq

\* await this.customerService.findByApiKey(apiKey)
MwCallFind(p) ==
  /\ rq[p].pc = "mw"
  /\ rq[p].secret # "none"
  /\ FbBegin(p, rq[p].secret)
  /\ rq' = [rq EXCEPT ![p].pc = "find"]
  /\ UNCHANGED <<now, tierRateLimit, dbVars, cache, limiterVars,
                 upstreamCalls, bufferVars, drainVars, billingVars>>

\* if (!apiKeyData) throw new UnauthorizedException('Invalid API key')
MwInvalidKey(p) ==
  /\ rq[p].pc = "find"
  /\ fb[p].pc = "done"
  /\ fb[p].result = "null"
  /\ rq' = [rq EXCEPT ![p].pc = "done", ![p].status = 401]
  /\ fb' = [fb EXCEPT ![p] = FbIdle]
  /\ UNCHANGED <<now, tierRateLimit, dbVars, cache, limiterVars,
                 upstreamCalls, bufferVars, drainVars, billingVars>>

\* findByApiKey has thrown: the request ends with 500
MwFindError(p) ==
  /\ rq[p].pc = "find"
  /\ fb[p].pc = "done"
  /\ fb[p].result = "error"
  /\ rq' = [rq EXCEPT ![p].pc = "done", ![p].status = 500]
  /\ fb' = [fb EXCEPT ![p] = FbIdle]
  /\ UNCHANGED <<now, tierRateLimit, dbVars, cache, limiterVars,
                 upstreamCalls, bufferVars, drainVars, billingVars>>

\* await this.rateLimitService.checkAndIncrement(customer.id, tier.rateLimit)
MwCallCheck(p) ==
  /\ rq[p].pc = "find"
  /\ fb[p].pc = "done"
  /\ fb[p].result = "ctx"
  /\ CaiBegin(p, fb[p].ctx.customer, fb[p].ctx.rateLimit)
  /\ rq' = [rq EXCEPT ![p].pc = "check", ![p].ctx = fb[p].ctx]
  /\ fb' = [fb EXCEPT ![p] = FbIdle]
  /\ UNCHANGED <<now, tierRateLimit, dbVars, cache, rate, admittedSinceReset,
                 admittedDay, upstreamCalls, bufferVars, drainVars, billingVars>>

\* if (!allowed) throw new HttpException('Rate limit exceeded', 429)
MwDenied(p) ==
  /\ rq[p].pc = "check"
  /\ rl[p].pc = "done"
  /\ ~rl[p].allowed
  /\ rq' = [rq EXCEPT ![p].pc = "done", ![p].status = 429]
  /\ rl' = [rl EXCEPT ![p] = RlIdle]
  /\ UNCHANGED <<now, tierRateLimit, dbVars, resolverVars, rate,
                 admittedSinceReset, admittedDay, upstreamCalls, bufferVars,
                 drainVars, billingVars>>

\* req.customer = ...; next()
MwNext(p) ==
  /\ rq[p].pc = "check"
  /\ rl[p].pc = "done"
  /\ rl[p].allowed
  /\ rq' = [rq EXCEPT ![p].pc = "forward", ![p].admitted = TRUE]
  /\ rl' = [rl EXCEPT ![p] = RlIdle]
  /\ UNCHANGED <<now, tierRateLimit, dbVars, resolverVars, rate,
                 admittedSinceReset, admittedDay, upstreamCalls, bufferVars,
                 drainVars, billingVars>>

\* default: throw new Error(`Method ${method} not supported`), which the
\* catch turns into HttpException('Gateway error', 502)
FwdUnsupported(p) ==
  /\ rq[p].pc = "forward"
  /\ ~MethodSupported(rq[p].method)
  /\ rq' = [rq EXCEPT ![p].pc = "done", ![p].status = 502]
  /\ UNCHANGED notRq

\* the upstream answers with a success status: return response.data
FwdUpstreamOk(p) ==
  /\ rq[p].pc = "forward"
  /\ MethodSupported(rq[p].method)
  /\ upstreamCalls' = upstreamCalls + 1
  /\ rq' = [rq EXCEPT ![p].pc = "tap", ![p].upstream = "ok",
                      ![p].target = TargetBaseUrl(rq[p].ctx)]
  /\ UNCHANGED <<now, tierRateLimit, dbVars, resolverVars, limiterVars,
                 bufferVars, drainVars, billingVars>>

\* the upstream answers with an error status:
\* throw new HttpException(error.response.data, error.response.status)
FwdUpstreamHttpError(p) ==
  /\ rq[p].pc = "forward"
  /\ MethodSupported(rq[p].method)
  /\ upstreamCalls' = upstreamCalls + 1
  /\ \E st \in {404, 500} :
       rq' = [rq EXCEPT ![p].pc = "done", ![p].status = st,
                        ![p].upstream = "httpError",
                        ![p].target = TargetBaseUrl(rq[p].ctx)]
  /\ UNCHANGED <<now, tierRateLimit, dbVars, resolverVars, limiterVars,
                 bufferVars, drainVars, billingVars>>

\* no response (transport failure, timeout):
\* throw new HttpException('Gateway error', HttpStatus.BAD_GATEWAY)
FwdUpstreamNoResponse(p) ==
  /\ rq[p].pc = "forward"
  /\ MethodSupported(rq[p].method)
  /\ upstreamCalls' = upstreamCalls + 1
  /\ rq' = [rq EXCEPT ![p].pc = "done", ![p].status = 502,
                      ![p].upstream = "noResponse",
                      ![p].target = TargetBaseUrl(rq[p].ctx)]
  /\ UNCHANGED <<now, tierRateLimit, dbVars, resolverVars, limiterVars,
                 bufferVars, drainVars, billingVars>>

\* tap(() => {... this.usageTrackingService.addUsageLog(usage)}): runs on
\* a value of the handler only; addUsageLog is not awaited
InterceptTap(p) ==
  /\ rq[p].pc = "tap"
  /\ UlBegin(p, rq[p].ctx.customer, SuccessStatus(rq[p].method))
  /\ rq' = [rq EXCEPT ![p].pc = "done",
                      ![p].status = SuccessStatus(rq[p].method)]
  /\ UNCHANGED <<now, tierRateLimit, dbVars, resolverVars, limiterVars,
                 upstreamCalls, custBuf, globalBuf, pushed, evicted,
                 drainVars, billingVars>>

(***************************************************************************)
(* Dates: the Date methods the billing application uses                    *)
(***************************************************************************)
\* the length in days of the month of index m (months counted from the
\* epoch)
MonthLength(m) == IF m % 2 = 0 THEN LongMonth ELSE ShortMonth

\* the day (counted from the epoch) on which the month of index m begins
MonthStartDay(m) ==
  (m \div 2) * (LongMonth + ShortMonth) + (IF m % 2 = 1 THEN LongMonth ELSE 0)

\* getFullYear() and getMonth() as one index of months
GetMonth(t) ==
  LET d == t \div DayLen
      r == d % (LongMonth + ShortMonth)
  IN  2 * (d \div (LongMonth + ShortMonth)) + (IF r < LongMonth THEN 0 ELSE 1)

GetFullYear(t) == GetMonth(t) \div MonthsPerYear

\* getDate(): the day of the month, from 1
GetDate(t) == (t \div DayLen) - MonthStartDay(GetMonth(t)) + 1

TimeOfDay(t) == t % DayLen

\* the instant of day `date` of month m at time of day tod; a day past the
\* end of the month rolls over into the following months
RECURSIVE MakeDate(_, _, _)
MakeDate(m, date, tod) ==
  IF date > MonthLength(m)
  THEN MakeDate(m + 1, date - MonthLength(m), tod)
  ELSE (MonthStartDay(m) + date - 1) * DayLen + tod

\* d.setMonth(d.getMonth() + 1)
SetMonthPlusOne(t) == MakeDate(GetMonth(t) + 1, GetDate(t), TimeOfDay(t))

\* d.setDate(d.getDate() + n)
SetDatePlus(t, n) == t + n * DayLen

(***************************************************************************)
(* The durable tables of the billing application                           *)
(***************************************************************************)
\* Customer.createdAt
CustomerCreatedAt(c) == 0

\* customer.tier.price
TierPrice(c) == IF c = "c1" THEN 29 ELSE 99

\* prisma.customer.findUnique({where: {id}}) finds a row
CustomerExists(c) == c \in BillCustomers

\* the rows of a table, as the set of its ids
Ids(table) == DOMAIN table

\* a count that includes the end of the period
UsageCountInclusiveEnd(c, startDate, endDate) ==
  Cardinality({k \in Ids(usageHistory) :
                 /\ usageHistory[k].customer = c
                 /\ usageHistory[k].timestamp >= startDate
                 /\ usageHistory[k].timestamp <= endDate})

\* PricingService.calculateUsageForPeriod: usageHistory.count with
\* timestamp gte startDate and lt endDate
UsageCount(c, startDate, endDate) ==
  Cardinality({k \in Ids(usageHistory) :
                 /\ usageHistory[k].customer = c
                 /\ usageHistory[k].timestamp >= startDate
                 /\ usageHistory[k].timestamp < endDate})

\* a duplicate check that finds nothing
HasInvoiceNever(c, periodStart, periodEnd) == FALSE

\* InvoiceService.checkForDuplicateInvoice: findFirst on customerId,
\* periodStart equals, periodEnd equals
HasInvoice(c, periodStart, periodEnd) ==
  \E i \in Ids(invoices) :
    /\ invoices[i].customerId = c
    /\ invoices[i].periodStart = periodStart
    /\ invoices[i].periodEnd = periodEnd

Max(S) == CHOOSE x \in S : \A y \in S : y <= x

\* String(sequence): the digits of n, most significant first
RECURSIVE Digits(_)
Digits(n) ==
  IF n < SeqBase THEN <<n>>
  ELSE Append(Digits(n \div SeqBase), n % SeqBase)

\* padStart(width, '0'): zeros in front of a string shorter than width
RECURSIVE PadStart(_, _)
PadStart(str, width) ==
  IF Len(str) >= width THEN str ELSE PadStart(<<0>> \o str, width)

\* parseInt(parts[3]): the value of a digit string
RECURSIVE ParseInt(_)
ParseInt(str) ==
  IF str = <<>> THEN 0
  ELSE ParseInt(SubSeq(str, 1, Len(str) - 1)) * SeqBase + str[Len(str)]

\* the order of two strings in orderBy: character by character, a proper
\* prefix first
RECURSIVE StringLess(_, _)
StringLess(a, b) ==
  IF b = <<>> THEN FALSE
  ELSE IF a = <<>> THEN TRUE
  ELSE IF Head(a) # Head(b) THEN Head(a) < Head(b)
  ELSE StringLess(Tail(a), Tail(b))

\* where invoiceNumber startsWith INV-year-month-: the sequence parts of the
\* stored numbers of month m
SequencesOfMonth(m) ==
  {invoices[i].invoiceNumber.seq :
     i \in {j \in Ids(invoices) : invoices[j].invoiceNumber.month = m}}

\* findFirst with orderBy invoiceNumber desc: the last string of the month
LatestSequence(m) ==
  CHOOSE x \in SequencesOfMonth(m) :
    \A y \in SequencesOfMonth(m) : y = x \/ StringLess(y, x)

\* the sequence is padded without regard to the stored strings
FormatSequence(sequence) == PadStart(Digits(sequence), SeqPad)

\* InvoiceService.generateInvoiceNumber: INV-year-month-sequence, one more
\* than the sequence parsed from the latest number of the month
NextInvoiceNumber(t) ==
  [month |-> GetMonth(t),
   seq |-> IF SequencesOfMonth(GetMonth(t)) = {} THEN FormatSequence(1)
           ELSE FormatSequence(ParseInt(LatestSequence(GetMonth(t))) + 1)]

\* a table without the unique index
InvoiceNumberNeverTaken(number) == FALSE

\* the unique index Invoice_invoiceNumber_key refuses the row
InvoiceNumberTaken(number) ==
  \E i \in Ids(invoices) : invoices[i].invoiceNumber = number

\* the line items of an invoice, in the order of their ids
LineItemsOf(invoiceId) ==
  SelectSeq(lineItems, LAMBDA item : item.invoiceId = invoiceId)

NoInvoice == [found |-> FALSE]

\* InvoiceService.getInvoiceById
GetInvoiceById(invoiceId) ==
  IF invoiceId \in Ids(invoices)
  THEN [found |-> TRUE, invoice |-> invoices[invoiceId],
        lineItems |-> LineItemsOf(invoiceId)]
  ELSE NoInvoice

(***************************************************************************)
(* InvoiceService.generateInvoice                                          *)
(***************************************************************************)
NoNumber == [month |-> 0, seq |-> <<>>]

\* the tables as a call finds them (history, kept in the call)
NoTables == [invoices |-> <<>>, lineItems |-> <<>>]

Tables == [invoices |-> invoices, lineItems |-> lineItems]

GiIdle == [pc |-> "idle", customer |-> "c1", periodStart |-> 0,
           periodEnd |-> 0, price |-> 0, usage |-> 0, number |-> NoNumber,
           dueDate |-> 0, invoiceId |-> 0, liUsage |-> 0, result |-> "none",
           ret |-> NoInvoice, snap |-> NoTables]

GiFree(p) == gi[p].pc = "idle"

\* generateInvoice(createInvoiceDto) is entered
GiBegin(p, c, periodStart, periodEnd) ==
  gi' = [gi EXCEPT ![p] = [GiIdle EXCEPT !.pc = "dupCheck", !.customer = c,
                             !.periodStart = periodStart,
                             !.periodEnd = periodEnd, !.snap = Tables]]

\* checkForDuplicateInvoice finds an invoice: BadRequestException
GiDuplicate(p) ==
  /\ gi[p].pc = "dupCheck"
  /\ HasInvoice(gi[p].customer, gi[p].periodStart, gi[p].periodEnd)
  /\ gi' = [gi EXCEPT ![p].pc = "done", ![p].result = "duplicate"]
  /\ UNCHANGED <<invoices, lineItems, usageHistory>>
  /\ UNCHANGED notBilling

\* checkForDuplicateInvoice finds none
GiNoDuplicate(p) ==
  /\ gi[p].pc = "dupCheck"
  /\ ~HasInvoice(gi[p].customer, gi[p].periodStart, gi[p].periodEnd)
  /\ gi' = [gi EXCEPT ![p].pc = "findCustomer"]
  /\ UNCHANGED <<invoices, lineItems, usageHistory>>
  /\ UNCHANGED notBilling

\* customer.findUnique returns null: NotFoundException
GiCustomerNotFound(p) ==
  /\ gi[p].pc = "findCustomer"
  /\ ~CustomerExists(gi[p].customer)
  /\ gi' = [gi EXCEPT ![p].pc = "done", ![p].result = "notFound"]
  /\ UNCHANGED <<invoices, lineItems, usageHistory>>
  /\ UNCHANGED notBilling

\* customer.findUnique returns the customer with its tier
GiCustomerFound(p) ==
  /\ gi[p].pc = "findCustomer"
  /\ CustomerExists(gi[p].customer)
  /\ gi' = [gi EXCEPT ![p].pc = "countUsage",
                      ![p].price = TierPrice(gi[p].customer)]
  /\ UNCHANGED <<invoices, lineItems, usageHistory>>
  /\ UNCHANGED notBilling

\* pricingService.calculateUsageForPeriod(customerId, periodStart, periodEnd)
GiCountUsage(p) ==
  /\ gi[p].pc = "countUsage"
  /\ gi' = [gi EXCEPT ![p].pc = "number",
                      ![p].usage = UsageCount(gi[p].customer,
                                              gi[p].periodStart,
                                              gi[p].periodEnd)]
  /\ UNCHANGED <<invoices, lineItems, usageHistory>>
  /\ UNCHANGED notBilling

\* generateInvoiceNumber() reads the latest number of the month; the due
\* date is 7 days from now
GiInvoiceNumber(p) ==
  /\ gi[p].pc = "number"
  /\ gi' = [gi EXCEPT ![p].pc = "create",
                      ![p].number = NextInvoiceNumber(now),
                      ![p].dueDate = SetDatePlus(now, DueDays)]
  /\ UNCHANGED <<invoices, lineItems, usageHistory>>
  /\ UNCHANGED notBilling

\* the Invoice row of invoice.create
NewInvoice(p) ==
  [invoiceNumber |-> gi[p].number, customerId |-> gi[p].customer,
   periodStart |-> gi[p].periodStart, periodEnd |-> gi[p].periodEnd,
   totalUsage |-> gi[p].usage, amount |-> gi[p].price, status |-> "PENDING",
   dueDate |-> gi[p].dueDate, paidAt |-> NoVal, createdAt |-> now]

\* prisma.invoice.create inserts the row
GiCreate(p) ==
  /\ gi[p].pc = "create"
  /\ ~InvoiceNumberTaken(gi[p].number)
  /\ invoices' = Append(invoices, NewInvoice(p))
  /\ gi' = [gi EXCEPT ![p].pc = "liCustomer",
                      ![p].invoiceId = Len(invoices) + 1]
  /\ UNCHANGED <<lineItems, usageHistory>>
  /\ UNCHANGED notBilling

\* prisma.invoice.create fails on the unique index of invoiceNumber: the
\* call rejects
GiCreateFails(p) ==
  /\ gi[p].pc = "create"
  /\ InvoiceNumberTaken(gi[p].number)
  /\ gi' = [gi EXCEPT ![p].pc = "done", ![p].result = "error"]
  /\ UNCHANGED <<invoices, lineItems, usageHistory>>
  /\ UNCHANGED notBilling

\* createInvoiceLineItems: customer.findUnique
GiLineItemsCustomer(p) ==
  /\ gi[p].pc = "liCustomer"
  /\ CustomerExists(gi[p].customer)
  /\ gi' = [gi EXCEPT ![p].pc = "liUsage"]
  /\ UNCHANGED <<invoices, lineItems, usageHistory>>
  /\ UNCHANGED notBilling

\* createInvoiceLineItems: calculateUsageForPeriod
GiLineItemsUsage(p) ==
  /\ gi[p].pc = "liUsage"
  /\ gi' = [gi EXCEPT ![p].pc = "liCreate",
                      ![p].liUsage = UsageCount(gi[p].customer,
                                                gi[p].periodStart,
                                                gi[p].periodEnd)]
  /\ UNCHANGED <<invoices, lineItems, usageHistory>>
  /\ UNCHANGED notBilling

\* the plan item and the informational API-calls item
PlanItem(invoiceId, c) ==
  [invoiceId |-> invoiceId, kind |-> "plan", quantity |-> 1,
   unitPrice |-> TierPrice(c), amount |-> TierPrice(c)]

UsageItem(invoiceId, usage) ==
  [invoiceId |-> invoiceId, kind |-> "apiCalls", quantity |-> usage,
   unitPrice |-> 0, amount |-> 0]

\* createInvoiceLineItems: invoiceLineItem.createMany
GiLineItemsCreate(p) ==
  /\ gi[p].pc = "liCreate"
  /\ lineItems' = lineItems \o
                    <<PlanItem(gi[p].invoiceId, gi[p].customer),
                      UsageItem(gi[p].invoiceId, gi[p].liUsage)>>
  /\ gi' = [gi EXCEPT ![p].pc = "getById"]
  /\ UNCHANGED <<invoices, usageHistory>>
  /\ UNCHANGED notBilling

\* invoiceLineItem.createMany rejects (the durable store fails): the error
\* leaves generateInvoice, which has no catch and no transaction around
\* the row it has inserted
GiLineItemsCreateFails(p) ==
  /\ gi[p].pc = "liCreate"
  /\ gi' = [gi EXCEPT ![p].pc = "done", ![p].result = "error"]
  /\ UNCHANGED <<invoices, lineItems, usageHistory>>
  /\ UNCHANGED notBilling

\* return this.getInvoiceById(invoice.id)
GiGetById(p) ==
  /\ gi[p].pc = "getById"
  /\ gi' = [gi EXCEPT ![p].pc = "done", ![p].result = "ok",
                      ![p].ret = GetInvoiceById(gi[p].invoiceId)]
  /\ UNCHANGED <<invoices, lineItems, usageHistory>>
  /\ UNCHANGED notBilling

(***************************************************************************)
(* BillingService.getCurrentBillingPeriod.                                 *)
(***************************************************************************)
\* MAX_ITERATIONS = 120: ten years worth of months
MaxIterations == FutureYears * MonthsPerYear

\* the creation date and period end sanity checks: now.getFullYear() + 100
SanityYears == 10 * FutureYears

\* invoice.findFirst({where: {customerId}, orderBy: {periodEnd: 'desc'}}):
\* the periodEnd of the customer's newest invoice, NoVal when there is none
LastPeriodEnd(c) ==
  LET ends == {invoices[i].periodEnd :
                 i \in {j \in Ids(invoices) : invoices[j].customerId = c}}
  IN  IF ends = {} THEN NoVal ELSE Max(ends)

PeriodError(e) ==
  [error |-> e, periodStart |-> 0, periodEnd |-> 0, daysRemaining |-> 0,
   cycleDay |-> 0]

\* the while loops of the three branches: "first" (no invoice), "current"
\* (newest invoice ends after now) and "next" (newest invoice has ended)
RECURSIVE AdvancePeriod(_, _, _, _)
AdvancePeriod(branch, periodStart, iterations, t) ==
  IF iterations >= MaxIterations
  THEN PeriodError("iterations")
  ELSE LET periodEnd == SetMonthPlusOne(periodStart)
       IN  IF t >= periodStart /\ t < periodEnd
           THEN [error |-> "none", periodStart |-> periodStart,
                 periodEnd |-> periodEnd, daysRemaining |-> 0, cycleDay |-> 0]
           ELSE IF branch = "first" /\ periodStart > t
           THEN PeriodError("startInFuture")
           ELSE IF /\ branch = "next"
                   /\ GetFullYear(periodStart) > GetFullYear(t) + FutureYears
           THEN PeriodError("tooFar")
           ELSE AdvancePeriod(branch, periodEnd, iterations + 1, t)

\* Math.floor in the place of Math.ceil
DaysRemainingFloor(periodEnd, t) == (periodEnd - t) \div DayLen

\* Math.ceil((periodEnd - now) / one day)
DaysRemaining(periodEnd, t) ==
  IF periodEnd >= t
  THEN (periodEnd - t + DayLen - 1) \div DayLen
  ELSE -((t - periodEnd) \div DayLen)

\* daysRemaining and cycleDay of a window the loop has found
FinishPeriod(found, cycleDay, t) ==
  IF found.error # "none"
  THEN found
  ELSE [found EXCEPT !.daysRemaining = DaysRemaining(found.periodEnd, t),
                     !.cycleDay = cycleDay]

\* the window computed for a customer created at createdAt whose newest
\* invoice ends at lastEnd, at time t
BillingPeriod(createdAt, lastEnd, t) ==
  IF lastEnd = NoVal
  THEN IF GetFullYear(createdAt) > GetFullYear(t) + SanityYears
       THEN PeriodError("invalidDate")
       ELSE FinishPeriod(AdvancePeriod("first", createdAt, 0, t),
                         GetDate(createdAt), t)
  ELSE IF GetFullYear(lastEnd) > GetFullYear(t) + SanityYears
       THEN PeriodError("invalidDate")
  ELSE IF lastEnd > t
       THEN FinishPeriod(AdvancePeriod("current", createdAt, 0, t),
                         GetDate(lastEnd), t)
       ELSE FinishPeriod(AdvancePeriod("next", SetDatePlus(lastEnd, 1), 0, t),
                         GetDate(lastEnd), t)

\* getCurrentBillingPeriod(customerId) at time t
GetCurrentBillingPeriod(c, t) ==
  IF ~CustomerExists(c)
  THEN PeriodError("notFound")
  ELSE BillingPeriod(CustomerCreatedAt(c), LastPeriodEnd(c), t)

NoPeriodCall ==
  [customer |-> "c1", at |-> 0, called |-> FALSE, lastEnd |-> NoVal,
   result |-> PeriodError("none")]

\* GET of the current billing period: the reads and new Date() are one
\* step, between two calls of the invoice engine
CallGetCurrentBillingPeriod(c) ==
  /\ \A q \in Procs : GiFree(q)
  /\ bp' = [customer |-> c, at |-> now, called |-> TRUE,
            lastEnd |-> LastPeriodEnd(c),
            result |-> GetCurrentBillingPeriod(c, now)]
  /\ UNCHANGED notPeriod

(***************************************************************************)
(* InvoiceProcessor.generateDailyInvoices: the scheduled pass over the     *)
(* active customers.  Each await is one step; the pass calls               *)
(* generateInvoice as handler JobProc.                                     *)
(***************************************************************************)
JobProc == 1

\* Customer.isActive of a customer of the billing application
BillCustomerActive(c) == c \notin DOMAIN customerActive \/ customerActive[c]

DjIdle ==
  [pc |-> "idle", todo |-> {}, customer |-> "c1",
   period |-> PeriodError("none"), result |-> "none"]

\* customer.findMany({where: {isActive: true}})
DjBegin ==
  /\ dj.pc = "idle"
  /\ \A q \in Procs : GiFree(q)
  /\ dj' = [DjIdle EXCEPT !.pc = "loop",
                          !.todo = {c \in BillCustomers :
                                      BillCustomerActive(c)}]
  /\ UNCHANGED gi
  /\ UNCHANGED notJob

\* the pass begins while the Invoice table is small
DjStart ==
  /\ Len(invoices) < MaxInvoices
  /\ DjBegin

\* if (billingPeriod.daysRemaining < 1) { skipCount++; continue; }
DjSkips(period) == period.daysRemaining < 1

\* the next customer of the loop: getCurrentBillingPeriod, the catch of
\* its errors, and the daysRemaining test
DjGetPeriod(c) ==
  /\ dj.pc = "loop"
  /\ c \in dj.todo
  /\ LET period == GetCurrentBillingPeriod(c, now)
     IN  dj' = [dj EXCEPT
                  !.todo = @ \ {c},
                  !.customer = c,
                  !.period = period,
                  !.pc = IF period.error # "none" \/ DjSkips(period)
                         THEN "loop" ELSE "dupCheck",
                  !.result = IF period.error # "none" THEN "error"
                             ELSE IF DjSkips(period) THEN "skipped"
                             ELSE "none"]
  /\ UNCHANGED gi
  /\ UNCHANGED notJob

\* checkForDuplicateInvoice finds an invoice: skipCount++; continue
DjDuplicate ==
  /\ dj.pc = "dupCheck"
  /\ HasInvoice(dj.customer, dj.period.periodStart, dj.period.periodEnd)
  /\ dj' = [dj EXCEPT !.pc = "loop", !.result = "skipped"]
  /\ UNCHANGED gi
  /\ UNCHANGED notJob

\* checkForDuplicateInvoice finds none: generateInvoice is called
DjNoDuplicate ==
  /\ dj.pc = "dupCheck"
  /\ ~HasInvoice(dj.customer, dj.period.periodStart, dj.period.periodEnd)
  /\ GiFree(JobProc)
  /\ GiBegin(JobProc, dj.customer, dj.period.periodStart,
             dj.period.periodEnd)
  /\ dj' = [dj EXCEPT !.pc = "generating"]
  /\ UNCHANGED notJob

\* generateInvoice has returned or thrown: successCount++ or errorCount++
DjGenerateReturn ==
  /\ dj.pc = "generating"
  /\ gi[JobProc].pc = "done"
  /\ dj' = [dj EXCEPT !.pc = "loop",
                      !.result = IF gi[JobProc].result = "ok"
                                 THEN "ok" ELSE "error"]
  /\ gi' = [gi EXCEPT ![JobProc] = GiIdle]
  /\ UNCHANGED notJob

\* the loop is over
DjDone ==
  /\ dj.pc = "loop"
  /\ dj.todo = {}
  /\ dj' = [dj EXCEPT !.pc = "idle"]
  /\ UNCHANGED gi
  /\ UNCHANGED notJob

(***************************************************************************)
(* InvoiceService.generateMonthlyInvoices: the bulk generation, started by *)
(* the monthly schedule or by POST /invoices/generate-bulk.  Each await is *)
(* one step; the job calls generateInvoice as handler BulkProc.            *)
(***************************************************************************)
BulkProc == 2

MjIdle ==
  [pc |-> "idle", todo |-> {}, selected |-> 0, customer |-> "c1",
   successful |-> 0, failed |-> 0, errors |-> <<>>, invoices |-> <<>>]

\* GenerateInvoicesDto.customerIds: absent, or a list of ids
BulkInputs ==
  {[given |-> FALSE, ids |-> {}],
   [given |-> TRUE, ids |-> {}],
   [given |-> TRUE, ids |-> {"c1"}]}

\* customer.findMany({where: {isActive: true, id: {in: customerIds}}}); an
\* absent customerIds adds no condition
MjSelected(dto) ==
  {c \in BillCustomers :
     BillCustomerActive(c) /\ (dto.given => c \in dto.ids)}

MjBegin(dto) ==
  /\ mj.pc = "idle"
  /\ GiFree(BulkProc)
  /\ mj' = [MjIdle EXCEPT !.pc = "loop", !.todo = MjSelected(dto),
                          !.selected = Cardinality(MjSelected(dto))]
  /\ UNCHANGED gi
  /\ UNCHANGED notBulk

\* the bulk generation begins while the Invoice table is small
MjStart(dto) ==
  /\ Len(invoices) < MaxInvoices
  /\ MjBegin(dto)

\* if (daysUntilEnd > 7) continue
MjSkips(period) == period.daysRemaining > BulkSoonDays

\* a catch that records the error without counting it
MjFailureUncounted(job, c, error) ==
  [job EXCEPT !.pc = "loop",
              !.errors = Append(@, [customerId |-> c, error |-> error])]

\* catch (error): results.failed++; results.errors.push({customerId,
\* error}); the loop goes on
MjFailure(job, c, error) ==
  [job EXCEPT !.pc = "loop", !.failed = @ + 1,
              !.errors = Append(@, [customerId |-> c, error |-> error])]

\* the next customer of the loop: getCurrentBillingPeriod throws into the
\* catch, or the period is more than 7 days from its end and the customer
\* is skipped
MjPeriodFailsOrSkips(c) ==
  /\ mj.pc = "loop"
  /\ c \in mj.todo
  /\ LET period == GetCurrentBillingPeriod(c, now)
         job == [mj EXCEPT !.todo = @ \ {c}, !.customer = c]
     IN  /\ period.error # "none" \/ MjSkips(period)
         /\ mj' = IF period.error # "none"
                  THEN MjFailure(job, c, period.error)
                  ELSE job
  /\ UNCHANGED gi
  /\ UNCHANGED notBulk

\* the next customer of the loop: its period ends soon, generateInvoice is
\* called with billingPeriod.startDate and billingPeriod.endDate
MjGenerate(c) ==
  /\ mj.pc = "loop"
  /\ c \in mj.todo
  /\ GiFree(BulkProc)
  /\ LET period == GetCurrentBillingPeriod(c, now)
     IN  /\ period.error = "none"
         /\ ~MjSkips(period)
         /\ GiBegin(BulkProc, c, period.periodStart, period.periodEnd)
  /\ mj' = [mj EXCEPT !.todo = @ \ {c}, !.customer = c,
                      !.pc = "generating"]
  /\ UNCHANGED notBulk

\* generateInvoice has returned: results.successful++ and
\* results.invoices.push(invoice)
MjGenerateReturns ==
  /\ mj.pc = "generating"
  /\ gi[BulkProc].pc = "done"
  /\ gi[BulkProc].result = "ok"
  /\ mj' = [mj EXCEPT !.pc = "loop", !.successful = @ + 1,
                      !.invoices = Append(@, gi[BulkProc].invoiceId)]
  /\ gi' = [gi EXCEPT ![BulkProc] = GiIdle]
  /\ UNCHANGED notBulk

\* generateInvoice has thrown into the catch
MjGenerateThrows ==
  /\ mj.pc = "generating"
  /\ gi[BulkProc].pc = "done"
  /\ gi[BulkProc].result # "ok"
  /\ mj' = MjFailure(mj, mj.customer, gi[BulkProc].result)
  /\ gi' = [gi EXCEPT ![BulkProc] = GiIdle]
  /\ UNCHANGED notBulk

\* the loop is over: return results
MjReturn ==
  /\ mj.pc = "loop"
  /\ mj.todo = {}
  /\ mj' = [mj EXCEPT !.pc = "done"]
  /\ UNCHANGED gi
  /\ UNCHANGED notBulk

\* the caller has taken the result
MjTaken ==
  /\ mj.pc = "done"
  /\ mj' = MjIdle
  /\ UNCHANGED gi
  /\ UNCHANGED notBulk

(***************************************************************************)
(* InvoiceService.updateInvoiceStatus, markInvoiceAsPaid,                  *)
(* markOverdueInvoices.  A call is one step: its reads and its write are   *)
(* not interleaved with other calls.                                       *)
(***************************************************************************)
Statuses == {"PENDING", "PAID", "OVERDUE", "CANCELLED"}

\* UpdateInvoiceStatusDto.paidAt: absent, null or a date
Undefined == -2

NoOp == [op |-> "none", id |-> 0, count |-> 0, at |-> 0, flip |-> FALSE]

\* prisma.invoice.update({data: {status, paidAt}}): an undefined paidAt
\* leaves the column alone
UpdatedInvoice(row, status, paidAt) ==
  [row EXCEPT !.status = status,
              !.paidAt = IF paidAt = Undefined THEN @ ELSE paidAt]

\* the Invoice table after updateInvoiceStatus(invoiceId, {status, paidAt})
InvoicesAfterUpdate(invoiceId, status, paidAt) ==
  IF invoiceId \in Ids(invoices)
  THEN [invoices EXCEPT ![invoiceId] = UpdatedInvoice(@, status, paidAt)]
  ELSE invoices

\* updateInvoiceStatus(invoiceId, updateDto): findUnique, NotFoundException
\* for a missing id, then update; no operation deletes an invoice, so the
\* lookup and the update are one step
UpdateStatus(op, invoiceId, status, paidAt) ==
  /\ \A q \in Procs : GiFree(q)
  /\ invoices' = InvoicesAfterUpdate(invoiceId, status, paidAt)
  /\ lastOp' = [op |-> op, id |-> invoiceId, count |-> 0, at |-> 0,
                flip |-> ~lastOp.flip]
  /\ UNCHANGED notStatus

\* PUT /invoices/:id/status
UpdateInvoiceStatus(invoiceId, status, paidAt) ==
  UpdateStatus("updateStatus", invoiceId, status, paidAt)

\* PUT /invoices/:id/mark-paid: status PAID, paidAt || new Date()
MarkInvoiceAsPaid(invoiceId) ==
  UpdateStatus("markPaid", invoiceId, "PAID", now)

\* a selection that takes the invoices due now as well
IsOverdueOrDueNow(row, t) == row.status = "PENDING" /\ row.dueDate <= t

\* where: {status: PENDING, dueDate: {lt: new Date()}}
IsOverdue(row, t) == row.status = "PENDING" /\ row.dueDate < t

\* markOverdueInvoices(): invoice.updateMany
MarkOverdueInvoices ==
  /\ \A q \in Procs : GiFree(q)
  /\ invoices' = [i \in Ids(invoices) |->
                    IF IsOverdue(invoices[i], now)
                    THEN [invoices[i] EXCEPT !.status = "OVERDUE"]
                    ELSE invoices[i]]
  /\ lastOp' = [op |-> "markOverdue", id |-> 0,
                count |-> Cardinality({i \in Ids(invoices) :
                                         IsOverdue(invoices[i], now)}),
                at |-> now, flip |-> ~lastOp.flip]
  /\ UNCHANGED notStatus

(***************************************************************************)
(* The invoice endpoints of the gateway's customer-facing billing mount:   *)
(* BillingController of the gateway, BillingClientService, and the         *)
(* InvoiceService method each request reaches.  request['customer'] is the *)
(* customer the API key authenticates.                                     *)
(***************************************************************************)
NoBillingRequest ==
  [caller |-> "none", op |-> "none", id |-> 0, reply |-> NoInvoice,
   listed |-> {}]

\* a request with an invoice id: the id of the path is passed on as it is
BillingMountById(caller, op, invoiceId, table) ==
  [caller |-> caller, op |-> op, id |-> invoiceId,
   reply |-> IF invoiceId \in Ids(table)
             THEN [found |-> TRUE, invoice |-> table[invoiceId],
                   lineItems |-> LineItemsOf(invoiceId)]
             ELSE NoInvoice,
   listed |-> {}]

\* GET /billing/invoices/:id: billingService.getInvoice(id)
GwGetInvoice(caller, invoiceId) ==
  /\ \A q \in Procs : GiFree(q)
  /\ br' = BillingMountById(caller, "get", invoiceId, invoices)
  /\ UNCHANGED <<invoices, lastOp>>
  /\ UNCHANGED notBillingMount

\* PUT /billing/invoices/:id/status: billingService.updateInvoiceStatus(id,
\* updateDto)
GwUpdateInvoiceStatus(caller, invoiceId, status, paidAt) ==
  /\ \A q \in Procs : GiFree(q)
  /\ invoices' = InvoicesAfterUpdate(invoiceId, status, paidAt)
  /\ br' = BillingMountById(caller, "updateStatus", invoiceId, invoices')
  /\ lastOp' = [op |-> "updateStatus", id |-> invoiceId, count |-> 0,
                at |-> 0, flip |-> ~lastOp.flip]
  /\ UNCHANGED notBillingMount

\* PUT /billing/invoices/:id/mark-paid: billingService.markInvoiceAsPaid(id)
GwMarkInvoiceAsPaid(caller, invoiceId) ==
  /\ \A q \in Procs : GiFree(q)
  /\ invoices' = InvoicesAfterUpdate(invoiceId, "PAID", now)
  /\ br' = BillingMountById(caller, "markPaid", invoiceId, invoices')
  /\ lastOp' = [op |-> "markPaid", id |-> invoiceId, count |-> 0,
                at |-> 0, flip |-> ~lastOp.flip]
  /\ UNCHANGED notBillingMount

\* InvoiceService.queryInvoices: where.customerId = customerId when it is
\* given
QueryInvoices(customerId) ==
  {i \in Ids(invoices) :
     customerId # "none" => invoices[i].customerId = customerId}

\* GET /billing/invoices: queryInvoices({...query, customerId}) with the
\* customerId of the authenticated customer in the place of the query's
GwQueryInvoices(caller, wanted) ==
  /\ \A q \in Procs : GiFree(q)
  /\ br' = [NoBillingRequest EXCEPT !.caller = caller, !.op = "query",
                                    !.listed = QueryInvoices(caller)]
  /\ UNCHANGED <<invoices, lastOp>>
  /\ UNCHANGED notBillingMount

(***************************************************************************)
(* The environment: the clock, and the callers of the limiter.             *)
(***************************************************************************)
Tick ==
  /\ now < MaxTime
  /\ now' = now + 1
  /\ UNCHANGED <<tierRateLimit, dbVars, resolverVars, limiterVars,
                 gatewayVars, bufferVars, drainVars, billingVars>>

\* a handler calls checkAndIncrement(customerId, tier.rateLimit)
CallCheckAndIncrement(p) ==
  /\ RlFree(p)
  /\ admittedDay[DayOf(now)] < MaxAdmitted
  /\ CaiBegin(p, "c1", tierRateLimit)
  /\ UNCHANGED <<rate, admittedSinceReset, admittedDay>>
  /\ UNCHANGED notLimiter

\* the same, with no other call in flight
CallCheckAndIncrementSerial(p) ==
  /\ \A q \in Procs : RlFree(q)
  /\ CallCheckAndIncrement(p)

\* the caller has taken the result of checkAndIncrement
ReturnCheckAndIncrement(p) ==
  /\ rl[p].pc = "done"
  /\ rl' = [rl EXCEPT ![p] = RlIdle]
  /\ UNCHANGED <<rate, admittedSinceReset, admittedDay>>
  /\ UNCHANGED notLimiter

\* a handler calls findByApiKey(secret)
CallFindByApiKey(p, secret) ==
  /\ FbFree(p)
  /\ FbBegin(p, secret)
  /\ UNCHANGED cache
  /\ UNCHANGED notResolver

\* the same, with no other call in flight
CallFindByApiKeySerial(p, secret) ==
  /\ \A q \in Procs : FbFree(q)
  /\ CallFindByApiKey(p, secret)

\* the caller has taken the result of findByApiKey
ReturnFindByApiKey(p) ==
  /\ fb[p].pc = "done"
  /\ fb' = [fb EXCEPT ![p] = FbIdle]
  /\ UNCHANGED cache
  /\ UNCHANGED notResolver

\* an administrator sets ApiKey.isActive = false
DeactivateKey(secret) ==
  /\ apiKeys[secret].isActive
  /\ apiKeys' = [apiKeys EXCEPT ![secret].isActive = FALSE]
  /\ deactivatedAt' = IF deactivatedAt = NoVal THEN now ELSE deactivatedAt
  /\ UNCHANGED <<now, tierRateLimit, customerActive, resolverVars, limiterVars,
                 gatewayVars, bufferVars, drainVars, billingVars>>

\* an administrator sets Customer.isActive = false
DeactivateCustomer(c) ==
  /\ customerActive[c]
  /\ customerActive' = [customerActive EXCEPT ![c] = FALSE]
  /\ deactivatedAt' = IF deactivatedAt = NoVal THEN now ELSE deactivatedAt
  /\ UNCHANGED <<now, tierRateLimit, apiKeys, resolverVars, limiterVars,
                 gatewayVars, bufferVars, drainVars, billingVars>>

\* a completed request calls addUsageLog(usage)
CallAddUsageLog(p, c) ==
  /\ UlFree(p)
  /\ nextId <= MaxRecords
  /\ UlBegin(p, c, 200)
  /\ UNCHANGED <<custBuf, globalBuf, pushed, evicted>>
  /\ UNCHANGED notBuffers

\* the same, with no other addUsageLog call in flight
CallAddUsageLogSerial(p, c) ==
  /\ \A q \in Procs : UlFree(q)
  /\ CallAddUsageLog(p, c)

\* addUsageLog has returned
ReturnAddUsageLog(p) ==
  /\ ul[p].pc = "done"
  /\ ul' = [ul EXCEPT ![p] = UlIdle]
  /\ UNCHANGED <<custBuf, globalBuf, nextId, pushed, evicted>>
  /\ UNCHANGED notBuffers

\* another client of the fast store pushes a text that is not JSON to
\* usage:logs:all (addUsageLog itself only pushes JSON.stringify output);
\* the entry counts among the MaxRecords entries of a behaviour
PushMalformed ==
  /\ nextId <= MaxRecords
  /\ Len(globalBuf) < MaxLogsTotal
  /\ \A k \in DOMAIN globalBuf : Parses(globalBuf[k])
  /\ globalBuf' = LPush(globalBuf, MalformedEntry)
  /\ nextId' = nextId + 1
  /\ UNCHANGED <<custBuf, ul, pushed, evicted>>
  /\ UNCHANGED notBuffers

\* the clock advances between two proxy requests
TickBetweenRequests ==
  /\ \A q \in Procs : rq[q].pc = "idle"
  /\ Tick

\* a client sends a proxy request; the requests are served one at a time
ReqArrive(p, secret, method) ==
  /\ \A q \in Procs : RqFree(q)
  /\ nextId <= MaxRecords
  /\ upstreamCalls < MaxUpstream
  /\ admittedDay[DayOf(now)] < MaxAdmitted
  /\ rq' = [rq EXCEPT ![p] = [RqIdle EXCEPT !.pc = "mw", !.secret = secret,
                                !.method = method, !.snap = Snapshot]]
  /\ UNCHANGED notRq

\* the response has been sent and the request's addUsageLog, if any, has
\* returned
ReqReturn(p) ==
  /\ rq[p].pc = "done"
  /\ ul[p].pc \in {"idle", "done"}
  /\ rq' = [rq EXCEPT ![p] = RqIdle]
  /\ ul' = [ul EXCEPT ![p] = UlIdle]
  /\ UNCHANGED <<now, tierRateLimit, dbVars, resolverVars, limiterVars,
                 upstreamCalls, custBuf, globalBuf, nextId, pushed, evicted,
                 drainVars, billingVars>>

\* the clock of the billing application runs through two months
BillingHorizon == (LongMonth + ShortMonth) * DayLen

\* the wall clock advances between two calls of the billing application
TickBillingClock ==
  /\ \A q \in Procs : GiFree(q)
  /\ now < BillingHorizon
  /\ now' = now + 1
  /\ UNCHANGED <<tierRateLimit, dbVars, resolverVars, limiterVars,
                 gatewayVars, bufferVars, drainVars, billingVars>>

\* the rows the scheduled jobs may have written before a run begins
ScheduledInvoices == MaxInvoices * (MaxInvoices + 1)

\* the daily schedule fires while no scheduled job is running
DjScheduled ==
  /\ mj.pc = "idle"
  /\ Len(invoices) < ScheduledInvoices
  /\ DjBegin

\* the monthly schedule fires while no scheduled job is running:
\* generateMonthlyInvoices({})
MjScheduled ==
  /\ dj.pc = "idle"
  /\ Len(invoices) < ScheduledInvoices
  /\ MjBegin([given |-> FALSE, ids |-> {}])

\* the wall clock advances between two runs of the scheduled jobs
TickBetweenScheduled ==
  /\ dj.pc = "idle"
  /\ mj.pc = "idle"
  /\ TickBillingClock

\* the wall clock advances between two bulk generations
TickBetweenBulk ==
  /\ mj.pc = "idle"
  /\ TickBillingClock

\* the wall clock advances between two scheduled passes
TickBetweenJobs ==
  /\ dj.pc = "idle"
  /\ TickBillingClock

\* an administrator deactivates a customer between two scheduled passes
DeactivateBetweenJobs(c) ==
  /\ dj.pc = "idle"
  /\ DeactivateCustomer(c)

\* the periods a POST /invoices may name
InputPeriods ==
  {[periodStart |-> CustomerCreatedAt("c1"),
    periodEnd |-> SetMonthPlusOne(CustomerCreatedAt("c1"))],
   [periodStart |-> 0, periodEnd |-> DayLen]}

\* POST /invoices: InvoiceController.createInvoice
CallGenerateInvoice(p, c, period) ==
  /\ GiFree(p)
  /\ Len(invoices) + Cardinality({q \in Procs : ~GiFree(q)}) < MaxInvoices
  /\ GiBegin(p, c, period.periodStart, period.periodEnd)
  /\ UNCHANGED <<invoices, lineItems, usageHistory>>
  /\ UNCHANGED notBilling

CallGenerateInvoiceSerial(p, c, period) ==
  /\ \A q \in Procs : GiFree(q)
  /\ CallGenerateInvoice(p, c, period)

\* POST /invoices, one call after the other, as long as the sequence of the
\* month has not passed its padded width by more than one
CallGenerateInvoiceOfMonth(p, c, period) ==
  /\ \A q \in Procs : GiFree(q)
  /\ Len(invoices) <= SeqBase ^ SeqPad
  /\ GiBegin(p, c, period.periodStart, period.periodEnd)
  /\ UNCHANGED <<invoices, lineItems, usageHistory>>
  /\ UNCHANGED notBilling

\* POST /invoices while the Invoice table is empty
CallGenerateFirstInvoice(p, c, period) ==
  /\ invoices = <<>>
  /\ CallGenerateInvoiceSerial(p, c, period)

\* generateInvoice has returned
ReturnGenerateInvoice(p) ==
  /\ gi[p].pc = "done"
  /\ gi' = [gi EXCEPT ![p] = GiIdle]
  /\ UNCHANGED <<invoices, lineItems, usageHistory>>
  /\ UNCHANGED notBilling

\* the drain of the gateway inserts a usage row of customer c
InsertUsage(c) ==
  /\ Len(usageHistory) < MaxUsageRows
  /\ usageHistory' = Append(usageHistory, [customer |-> c, timestamp |-> now])
  /\ UNCHANGED <<invoices, lineItems, gi>>
  /\ UNCHANGED notBilling

\* the clock advances while no generateInvoice is running
TickBetweenCalls ==
  /\ \A q \in Procs : GiFree(q)
  /\ Tick

\* the drain inserts a usage row while no generateInvoice is running
InsertUsageBetweenCalls(c) ==
  /\ \A q \in Procs : GiFree(q)
  /\ InsertUsage(c)

Init ==
  /\ now = 0
  /\ tierRateLimit \in 0..MaxQuota
  /\ rate = [c \in Customers |-> EmptyHash]
  /\ rl = [p \in Procs |-> RlIdle]
  /\ admittedSinceReset = 0
  /\ admittedDay = [d \in Days |-> 0]
  /\ apiKeys \in [{"k1"} -> [isActive : {TRUE}, expiresAt : {NoVal, KeyExpiry},
                              customer : {"c1"}]]
  /\ customerActive = [c \in Customers |-> TRUE]
  /\ cache = [s \in Secrets |-> NoEntry]
  /\ fb = [p \in Procs |-> FbIdle]
  /\ deactivatedAt = NoVal
  /\ rq = [p \in Procs |-> RqIdle]
  /\ upstreamCalls = 0
  /\ custBuf = [c \in Customers |-> <<>>]
  /\ globalBuf = <<>>
  /\ ul = [p \in Procs |-> UlIdle]
  /\ nextId = 1
  /\ pushed = {}
  /\ evicted = FALSE
  /\ fl = FlIdle
  /\ usageRows = [i \in 1..MaxRecords |-> 0]
  /\ dbFailed = FALSE
  /\ invoices = <<>>
  /\ lineItems = <<>>
  /\ usageHistory = <<>>
  /\ gi = [p \in Procs |-> GiIdle]
  /\ lastOp = NoOp
  /\ bp = NoPeriodCall
  /\ dj = DjIdle
  /\ mj = MjIdle
  /\ br = NoBillingRequest

(***************************************************************************)
(* The limiter under serial calls, and under concurrent calls.             *)
(***************************************************************************)
InitLimiter == Init /\ apiKeys["k1"].expiresAt = NoVal

NextLimiterSerial ==
  \/ Tick
  \/ \E p \in Procs : CallCheckAndIncrementSerial(p)
  \/ \E p \in Procs : CaiReset(p)
  \/ \E p \in Procs : CaiDeny(p)
  \/ \E p \in Procs : CaiUnderLimit(p)
  \/ \E p \in Procs : CaiHSetCount(p)
  \/ \E p \in Procs : CaiHSetResetAt(p)
  \/ \E p \in Procs : CaiHSetIncr(p)
  \/ \E p \in Procs : ReturnCheckAndIncrement(p)

SpecLimiterSerial == InitLimiter /\ [][NextLimiterSerial]_vars

NextLimiter ==
  \/ Tick
  \/ \E p \in Procs : CallCheckAndIncrement(p)
  \/ \E p \in Procs : CaiReset(p)
  \/ \E p \in Procs : CaiDeny(p)
  \/ \E p \in Procs : CaiUnderLimit(p)
  \/ \E p \in Procs : CaiHSetCount(p)
  \/ \E p \in Procs : CaiHSetResetAt(p)
  \/ \E p \in Procs : CaiHSetIncr(p)
  \/ \E p \in Procs : ReturnCheckAndIncrement(p)

SpecLimiter == InitLimiter /\ [][NextLimiter]_vars
(***************************************************************************)
(* The key resolver, with the clock and the administrator.                 *)
(***************************************************************************)
InitResolver == Init /\ tierRateLimit = MaxQuota

(***************************************************************************)
(* The usage buffers with the drain task.                                  *)
(***************************************************************************)
InitDrain == InitLimiter /\ tierRateLimit = MaxQuota

NextDrain ==
  \/ \E p \in Procs, c \in Customers : CallAddUsageLog(p, c)
  \/ \E p \in Procs : UlLPushCustomer(p)
  \/ \E p \in Procs : UlLTrimCustomer(p)
  \/ \E p \in Procs : UlLPushGlobal(p)
  \/ \E p \in Procs : UlLTrimGlobal(p)
  \/ \E p \in Procs : UlFails(p)
  \/ \E p \in Procs : ReturnAddUsageLog(p)
  \/ FlushStart
  \/ FlushReadEmpty
  \/ FlushRead
  \/ FlushInsert
  \/ FlushInsertFails
  \/ FlushTrim

SpecDrain == InitDrain /\ [][NextDrain]_vars

(***************************************************************************)
(* The drain with one handler recording usage: its addUsageLog calls       *)
(* follow each other and interleave with the steps of the drain; the bulk  *)
(* insert may fail.                                                        *)
(***************************************************************************)
NextFlush ==
  \/ \E p \in {1}, c \in Customers : CallAddUsageLog(p, c)
  \/ \E p \in Procs : UlLPushCustomer(p)
  \/ \E p \in Procs : UlLTrimCustomer(p)
  \/ \E p \in Procs : UlLPushGlobal(p)
  \/ \E p \in Procs : UlLTrimGlobal(p)
  \/ \E p \in Procs : ReturnAddUsageLog(p)
  \/ FlushStart
  \/ FlushReadEmpty
  \/ FlushRead
  \/ FlushInsert
  \/ FlushInsertFails
  \/ FlushTrim

SpecFlush == InitDrain /\ [][NextFlush]_vars

(***************************************************************************)
(* The drain while the durable store stays available: the scheduler keeps  *)
(* starting ticks and every awaited command of a tick or of an             *)
(* addUsageLog call completes.                                             *)
(***************************************************************************)
FlushStep ==
  \/ FlushStart
  \/ FlushReadEmpty
  \/ FlushRead
  \/ FlushInsert
  \/ FlushTrim

UlStep(p) ==
  \/ UlLPushCustomer(p)
  \/ UlLTrimCustomer(p)
  \/ UlLPushGlobal(p)
  \/ UlLTrimGlobal(p)
  \/ ReturnAddUsageLog(p)

NextFlushAvailable ==
  \/ \E p \in {1}, c \in Customers : CallAddUsageLog(p, c)
  \/ \E p \in Procs : UlLPushCustomer(p)
  \/ \E p \in Procs : UlLTrimCustomer(p)
  \/ \E p \in Procs : UlLPushGlobal(p)
  \/ \E p \in Procs : UlLTrimGlobal(p)
  \/ \E p \in Procs : ReturnAddUsageLog(p)
  \/ FlushStart
  \/ FlushReadEmpty
  \/ FlushRead
  \/ FlushInsert
  \/ FlushTrim

SpecFlushFair ==
  /\ InitDrain
  /\ [][NextFlushAvailable]_vars
  /\ WF_vars(FlushStep)
  /\ \A p \in Procs : WF_vars(UlStep(p))

(***************************************************************************)
(* addUsageLog called by one request after the other, with fast-store      *)
(* failures and no drain.                                                  *)
(***************************************************************************)
NextUsageLogSerial ==
  \/ \E p \in {1}, c \in Customers : CallAddUsageLogSerial(p, c)
  \/ \E p \in Procs : UlLPushCustomer(p)
  \/ \E p \in Procs : UlLTrimCustomer(p)
  \/ \E p \in Procs : UlLPushGlobal(p)
  \/ \E p \in Procs : UlLTrimGlobal(p)
  \/ \E p \in Procs : UlFails(p)
  \/ \E p \in Procs : ReturnAddUsageLog(p)

SpecUsageLogSerial == InitDrain /\ [][NextUsageLogSerial]_vars

(***************************************************************************)
(* The drain of a buffer that may hold an entry that is not JSON.          *)
(***************************************************************************)
NextDrainMalformed ==
  \/ \E p \in {1}, c \in Customers : CallAddUsageLog(p, c)
  \/ \E p \in Procs : UlLPushCustomer(p)
  \/ \E p \in Procs : UlLTrimCustomer(p)
  \/ \E p \in Procs : UlLPushGlobal(p)
  \/ \E p \in Procs : UlLTrimGlobal(p)
  \/ \E p \in Procs : ReturnAddUsageLog(p)
  \/ PushMalformed
  \/ FlushStart
  \/ FlushReadEmpty
  \/ FlushRead
  \/ FlushParseFails
  \/ FlushInsert
  \/ FlushTrim

SpecDrainMalformed == InitDrain /\ [][NextDrainMalformed]_vars

(***************************************************************************)
(* The gateway, proxy requests served one at a time.                       *)
(***************************************************************************)
InitGateway == Init /\ tierRateLimit = MaxQuota

NextGateway ==
  \/ TickBetweenRequests
  \/ \E p \in {1}, s \in Secrets \cup {"none"}, m \in Methods :
       ReqArrive(p, s, m)
  \/ \E p \in Procs : MwMissingKey(p)
  \/ \E p \in Procs : MwCallFind(p)
  \/ \E p \in Procs : FbCacheHit(p)
  \/ \E p \in Procs : FbCacheMiss(p)
  \/ \E p \in Procs : FbCacheGetFails(p)
  \/ \E p \in Procs : FbDbNoRow(p)
  \/ \E p \in Procs : FbDbRejected(p)
  \/ \E p \in Procs : FbDbFound(p)
  \/ \E p \in Procs : FbSetex(p)
  \/ \E p \in Procs : FbSetexFails(p)
  \/ \E p \in Procs : MwInvalidKey(p)
  \/ \E p \in Procs : MwFindError(p)
  \/ \E p \in Procs : MwCallCheck(p)
  \/ \E p \in Procs : CaiReset(p)
  \/ \E p \in Procs : CaiDeny(p)
  \/ \E p \in Procs : CaiUnderLimit(p)
  \/ \E p \in Procs : CaiHSetCount(p)
  \/ \E p \in Procs : CaiHSetResetAt(p)
  \/ \E p \in Procs : CaiHSetIncr(p)
  \/ \E p \in Procs : MwDenied(p)
  \/ \E p \in Procs : MwNext(p)
  \/ \E p \in Procs : FwdUnsupported(p)
  \/ \E p \in Procs : FwdUpstreamOk(p)
  \/ \E p \in Procs : FwdUpstreamHttpError(p)
  \/ \E p \in Procs : FwdUpstreamNoResponse(p)
  \/ \E p \in Procs : InterceptTap(p)
  \/ \E p \in Procs : UlLPushCustomer(p)
  \/ \E p \in Procs : UlLTrimCustomer(p)
  \/ \E p \in Procs : UlLPushGlobal(p)
  \/ \E p \in Procs : UlLTrimGlobal(p)
  \/ \E p \in Procs : UlFails(p)
  \/ \E p \in Procs : ReqReturn(p)

SpecGateway == InitGateway /\ [][NextGateway]_vars

(***************************************************************************)
(* The invoice engine under concurrent calls of generateInvoice, within    *)
(* one tick of the clock.                                                  *)
(***************************************************************************)
\* the scheduled job and a manual POST /invoices
InvoiceCallers == {1, 2}

NextInvoice ==
  \/ \E p \in InvoiceCallers, c \in CustomerIds, period \in InputPeriods :
       CallGenerateInvoice(p, c, period)
  \/ \E p \in Procs : GiDuplicate(p)
  \/ \E p \in Procs : GiNoDuplicate(p)
  \/ \E p \in Procs : GiCustomerNotFound(p)
  \/ \E p \in Procs : GiCustomerFound(p)
  \/ \E p \in Procs : GiCountUsage(p)
  \/ \E p \in Procs : GiInvoiceNumber(p)
  \/ \E p \in Procs : GiCreate(p)
  \/ \E p \in Procs : GiCreateFails(p)
  \/ \E p \in Procs : GiLineItemsCustomer(p)
  \/ \E p \in Procs : GiLineItemsUsage(p)
  \/ \E p \in Procs : GiLineItemsCreate(p)
  \/ \E p \in Procs : GiGetById(p)
  \/ \E p \in Procs : ReturnGenerateInvoice(p)

SpecInvoice == InitDrain /\ [][NextInvoice]_vars

(***************************************************************************)
(* The invoice engine under serial calls of generateInvoice.               *)
(***************************************************************************)
NextInvoiceSerial ==
  \/ \E p \in {1}, c \in CustomerIds, period \in InputPeriods :
       CallGenerateInvoiceSerial(p, c, period)
  \/ \E p \in Procs : GiDuplicate(p)
  \/ \E p \in Procs : GiNoDuplicate(p)
  \/ \E p \in Procs : GiCustomerNotFound(p)
  \/ \E p \in Procs : GiCustomerFound(p)
  \/ \E p \in Procs : GiCountUsage(p)
  \/ \E p \in Procs : GiInvoiceNumber(p)
  \/ \E p \in Procs : GiCreate(p)
  \/ \E p \in Procs : GiLineItemsCustomer(p)
  \/ \E p \in Procs : GiLineItemsUsage(p)
  \/ \E p \in Procs : GiLineItemsCreate(p)
  \/ \E p \in Procs : GiGetById(p)
  \/ \E p \in Procs : ReturnGenerateInvoice(p)

SpecInvoiceSerial == InitDrain /\ [][NextInvoiceSerial]_vars

(***************************************************************************)
(* generateInvoice, one call after the other, while the drain of the       *)
(* gateway inserts usage rows and the durable store may fail on the line   *)
(* items.                                                                  *)
(***************************************************************************)
NextInvoiceStore ==
  \/ \E c \in BillCustomers : InsertUsage(c)
  \/ \E p \in {1}, c \in BillCustomers, period \in InputPeriods :
       CallGenerateInvoiceSerial(p, c, period)
  \/ \E p \in Procs : GiDuplicate(p)
  \/ \E p \in Procs : GiNoDuplicate(p)
  \/ \E p \in Procs : GiCustomerFound(p)
  \/ \E p \in Procs : GiCountUsage(p)
  \/ \E p \in Procs : GiInvoiceNumber(p)
  \/ \E p \in Procs : GiCreate(p)
  \/ \E p \in Procs : GiLineItemsCustomer(p)
  \/ \E p \in Procs : GiLineItemsUsage(p)
  \/ \E p \in Procs : GiLineItemsCreate(p)
  \/ \E p \in Procs : GiLineItemsCreateFails(p)
  \/ \E p \in Procs : GiGetById(p)
  \/ \E p \in Procs : ReturnGenerateInvoice(p)

SpecInvoiceStore == InitDrain /\ [][NextInvoiceStore]_vars

(***************************************************************************)
(* The first invoice of the table, of either customer, and the requests of *)
(* either customer on the billing mount of the gateway.                    *)
(***************************************************************************)
NextBillingMount ==
  \/ \E p \in {1}, c \in BillCustomers, period \in InputPeriods :
       CallGenerateFirstInvoice(p, c, period)
  \/ \E p \in Procs : GiNoDuplicate(p)
  \/ \E p \in Procs : GiCustomerFound(p)
  \/ \E p \in Procs : GiCountUsage(p)
  \/ \E p \in Procs : GiInvoiceNumber(p)
  \/ \E p \in Procs : GiCreate(p)
  \/ \E p \in Procs : GiLineItemsCustomer(p)
  \/ \E p \in Procs : GiLineItemsUsage(p)
  \/ \E p \in Procs : GiLineItemsCreate(p)
  \/ \E p \in Procs : GiGetById(p)
  \/ \E p \in Procs : ReturnGenerateInvoice(p)
  \/ \E a \in BillCustomers, i \in 1..(Len(invoices) + 1) :
       GwGetInvoice(a, i)
  \/ \E a \in BillCustomers, i \in 1..(Len(invoices) + 1),
        st \in Statuses, paidAt \in {Undefined} :
       GwUpdateInvoiceStatus(a, i, st, paidAt)
  \/ \E a \in BillCustomers, i \in 1..(Len(invoices) + 1) :
       GwMarkInvoiceAsPaid(a, i)
  \/ \E a \in BillCustomers, wanted \in BillCustomers :
       GwQueryInvoices(a, wanted)

SpecBillingMount == InitDrain /\ [][NextBillingMount]_vars

(***************************************************************************)
(* generateInvoice called again and again within one month.                *)
(***************************************************************************)
NextInvoiceNumbers ==
  \/ \E p \in {1}, c \in BillCustomers, period \in InputPeriods :
       CallGenerateInvoiceOfMonth(p, c, period)
  \/ \E p \in Procs : GiDuplicate(p)
  \/ \E p \in Procs : GiNoDuplicate(p)
  \/ \E p \in Procs : GiCustomerFound(p)
  \/ \E p \in Procs : GiCountUsage(p)
  \/ \E p \in Procs : GiInvoiceNumber(p)
  \/ \E p \in Procs : GiCreate(p)
  \/ \E p \in Procs : GiCreateFails(p)
  \/ \E p \in Procs : GiLineItemsCustomer(p)
  \/ \E p \in Procs : GiLineItemsUsage(p)
  \/ \E p \in Procs : GiLineItemsCreate(p)
  \/ \E p \in Procs : GiGetById(p)
  \/ \E p \in Procs : ReturnGenerateInvoice(p)

SpecInvoiceNumbers == InitDrain /\ [][NextInvoiceNumbers]_vars

(***************************************************************************)
(* The first invoice of the table, with the clock and the usage rows.      *)
(***************************************************************************)
NextInvoiceUsage ==
  \/ TickBetweenCalls
  \/ \E c \in BillCustomers : InsertUsageBetweenCalls(c)
  \/ \E p \in {1}, c \in CustomerIds, period \in InputPeriods :
       CallGenerateFirstInvoice(p, c, period)
  \/ \E p \in Procs : GiNoDuplicate(p)
  \/ \E p \in Procs : GiCustomerNotFound(p)
  \/ \E p \in Procs : GiCustomerFound(p)
  \/ \E p \in Procs : GiCountUsage(p)
  \/ \E p \in Procs : GiInvoiceNumber(p)
  \/ \E p \in Procs : GiCreate(p)
  \/ \E p \in Procs : GiLineItemsCustomer(p)
  \/ \E p \in Procs : GiLineItemsUsage(p)
  \/ \E p \in Procs : GiLineItemsCreate(p)
  \/ \E p \in Procs : GiGetById(p)
  \/ \E p \in Procs : ReturnGenerateInvoice(p)

SpecInvoiceUsage == InitDrain /\ [][NextInvoiceUsage]_vars

(***************************************************************************)
(* The status operations on the first invoice, with the clock.             *)
(***************************************************************************)
NextInvoiceStatus ==
  \/ TickBetweenCalls
  \/ \E p \in {1}, c \in {"c1"}, period \in InputPeriods :
       CallGenerateFirstInvoice(p, c, period)
  \/ \E p \in Procs : GiNoDuplicate(p)
  \/ \E p \in Procs : GiCustomerFound(p)
  \/ \E p \in Procs : GiCountUsage(p)
  \/ \E p \in Procs : GiInvoiceNumber(p)
  \/ \E p \in Procs : GiCreate(p)
  \/ \E p \in Procs : GiLineItemsCustomer(p)
  \/ \E p \in Procs : GiLineItemsUsage(p)
  \/ \E p \in Procs : GiLineItemsCreate(p)
  \/ \E p \in Procs : GiGetById(p)
  \/ \E p \in Procs : ReturnGenerateInvoice(p)
  \/ \E i \in 1..(Len(invoices) + 1), st \in Statuses,
        paidAt \in {Undefined, NoVal, now} :
       UpdateInvoiceStatus(i, st, paidAt)
  \/ \E i \in 1..(Len(invoices) + 1) : MarkInvoiceAsPaid(i)
  \/ MarkOverdueInvoices

SpecInvoiceStatus == InitDrain /\ [][NextInvoiceStatus]_vars

(***************************************************************************)
(* The overdue pass on the invoices of one customer, with payments,        *)
(* cancellations and the clock.                                            *)
(***************************************************************************)
NextOverdue ==
  \/ TickBetweenCalls
  \/ \E p \in {1}, c \in {"c1"}, period \in InputPeriods :
       CallGenerateInvoiceSerial(p, c, period)
  \/ \E p \in Procs : GiDuplicate(p)
  \/ \E p \in Procs : GiNoDuplicate(p)
  \/ \E p \in Procs : GiCustomerFound(p)
  \/ \E p \in Procs : GiCountUsage(p)
  \/ \E p \in Procs : GiInvoiceNumber(p)
  \/ \E p \in Procs : GiCreate(p)
  \/ \E p \in Procs : GiLineItemsCustomer(p)
  \/ \E p \in Procs : GiLineItemsUsage(p)
  \/ \E p \in Procs : GiLineItemsCreate(p)
  \/ \E p \in Procs : GiGetById(p)
  \/ \E p \in Procs : ReturnGenerateInvoice(p)
  \/ \E i \in Ids(invoices), st \in {"CANCELLED"}, paidAt \in {Undefined} :
       UpdateInvoiceStatus(i, st, paidAt)
  \/ \E i \in Ids(invoices) : MarkInvoiceAsPaid(i)
  \/ MarkOverdueInvoices

SpecOverdue == InitDrain /\ [][NextOverdue]_vars

(***************************************************************************)
(* The current billing period of a customer, asked for at any time while   *)
(* invoices are created for the periods a POST /invoices names.            *)
(***************************************************************************)
NextBillingPeriod ==
  \/ TickBillingClock
  \/ \E p \in {1}, c \in {"c1"}, period \in InputPeriods :
       CallGenerateInvoiceSerial(p, c, period)
  \/ \E p \in Procs : GiDuplicate(p)
  \/ \E p \in Procs : GiNoDuplicate(p)
  \/ \E p \in Procs : GiCustomerFound(p)
  \/ \E p \in Procs : GiCountUsage(p)
  \/ \E p \in Procs : GiInvoiceNumber(p)
  \/ \E p \in Procs : GiCreate(p)
  \/ \E p \in Procs : GiLineItemsCustomer(p)
  \/ \E p \in Procs : GiLineItemsUsage(p)
  \/ \E p \in Procs : GiLineItemsCreate(p)
  \/ \E p \in Procs : GiGetById(p)
  \/ \E p \in Procs : ReturnGenerateInvoice(p)
  \/ \E c \in CustomerIds : CallGetCurrentBillingPeriod(c)

SpecBillingPeriod == InitDrain /\ [][NextBillingPeriod]_vars

(***************************************************************************)
(* One call of getCurrentBillingPeriod, at any time of the two months,     *)
(* after at most one invoice of the customer has been generated.           *)
(***************************************************************************)
\* the clock advances until the billing period is asked for
TickBeforePeriodCall ==
  /\ ~bp.called
  /\ TickBillingClock

\* the first invoice is generated before the billing period is asked for
CallGenerateBeforePeriodCall(p, c, period) ==
  /\ ~bp.called
  /\ CallGenerateFirstInvoice(p, c, period)

\* the billing period is asked for once
CallGetCurrentBillingPeriodOnce(c) ==
  /\ ~bp.called
  /\ CallGetCurrentBillingPeriod(c)

NextPeriodOnce ==
  \/ TickBeforePeriodCall
  \/ \E p \in {1}, c \in {"c1"}, period \in InputPeriods :
       CallGenerateBeforePeriodCall(p, c, period)
  \/ \E p \in Procs : GiNoDuplicate(p)
  \/ \E p \in Procs : GiCustomerFound(p)
  \/ \E p \in Procs : GiCountUsage(p)
  \/ \E p \in Procs : GiInvoiceNumber(p)
  \/ \E p \in Procs : GiCreate(p)
  \/ \E p \in Procs : GiLineItemsCustomer(p)
  \/ \E p \in Procs : GiLineItemsUsage(p)
  \/ \E p \in Procs : GiLineItemsCreate(p)
  \/ \E p \in Procs : GiGetById(p)
  \/ \E p \in Procs : ReturnGenerateInvoice(p)
  \/ \E c \in CustomerIds : CallGetCurrentBillingPeriodOnce(c)

SpecPeriodOnce == InitDrain /\ [][NextPeriodOnce]_vars

(***************************************************************************)
(* The bulk generation, run at any time of the two months.                 *)
(***************************************************************************)
NextBulk ==
  \/ TickBetweenBulk
  \/ \E dto \in BulkInputs : MjStart(dto)
  \/ \E c \in BillCustomers : MjPeriodFailsOrSkips(c)
  \/ \E c \in BillCustomers : MjGenerate(c)
  \/ MjGenerateReturns
  \/ MjGenerateThrows
  \/ MjReturn
  \/ MjTaken
  \/ \E p \in Procs : GiDuplicate(p)
  \/ \E p \in Procs : GiNoDuplicate(p)
  \/ \E p \in Procs : GiCustomerFound(p)
  \/ \E p \in Procs : GiCountUsage(p)
  \/ \E p \in Procs : GiInvoiceNumber(p)
  \/ \E p \in Procs : GiCreate(p)
  \/ \E p \in Procs : GiLineItemsCustomer(p)
  \/ \E p \in Procs : GiLineItemsUsage(p)
  \/ \E p \in Procs : GiLineItemsCreate(p)
  \/ \E p \in Procs : GiGetById(p)

SpecBulk == InitDrain /\ [][NextBulk]_vars

(***************************************************************************)
(* The two scheduled jobs, one run after the other, over two months.       *)
(***************************************************************************)
NextScheduled ==
  \/ TickBetweenScheduled
  \/ DjScheduled
  \/ \E c \in BillCustomers : DjGetPeriod(c)
  \/ DjDuplicate
  \/ DjNoDuplicate
  \/ DjGenerateReturn
  \/ DjDone
  \/ MjScheduled
  \/ \E c \in BillCustomers : MjPeriodFailsOrSkips(c)
  \/ \E c \in BillCustomers : MjGenerate(c)
  \/ MjGenerateReturns
  \/ MjGenerateThrows
  \/ MjReturn
  \/ MjTaken
  \/ \E p \in Procs : GiDuplicate(p)
  \/ \E p \in Procs : GiNoDuplicate(p)
  \/ \E p \in Procs : GiCustomerFound(p)
  \/ \E p \in Procs : GiCountUsage(p)
  \/ \E p \in Procs : GiInvoiceNumber(p)
  \/ \E p \in Procs : GiCreate(p)
  \/ \E p \in Procs : GiLineItemsCustomer(p)
  \/ \E p \in Procs : GiLineItemsUsage(p)
  \/ \E p \in Procs : GiLineItemsCreate(p)
  \/ \E p \in Procs : GiGetById(p)

SpecScheduled == InitDrain /\ [][NextScheduled]_vars

(***************************************************************************)
(* The scheduled daily pass, run at any time of the two months.            *)
(***************************************************************************)
NextDailyJob ==
  \/ TickBetweenJobs
  \/ \E c \in Customers : DeactivateBetweenJobs(c)
  \/ DjStart
  \/ \E c \in BillCustomers : DjGetPeriod(c)
  \/ DjDuplicate
  \/ DjNoDuplicate
  \/ \E p \in Procs : GiNoDuplicate(p)
  \/ \E p \in Procs : GiCustomerFound(p)
  \/ \E p \in Procs : GiCountUsage(p)
  \/ \E p \in Procs : GiInvoiceNumber(p)
  \/ \E p \in Procs : GiCreate(p)
  \/ \E p \in Procs : GiLineItemsCustomer(p)
  \/ \E p \in Procs : GiLineItemsUsage(p)
  \/ \E p \in Procs : GiLineItemsCreate(p)
  \/ \E p \in Procs : GiGetById(p)
  \/ DjGenerateReturn
  \/ DjDone

SpecDailyJob == InitDrain /\ [][NextDailyJob]_vars

NextResolverSerial ==
  \/ Tick
  \/ \E p \in Procs, s \in Secrets : CallFindByApiKeySerial(p, s)
  \/ \E p \in Procs : FbCacheHit(p)
  \/ \E p \in Procs : FbCacheMiss(p)
  \/ \E p \in Procs : FbCacheGetFails(p)
  \/ \E p \in Procs : FbDbNoRow(p)
  \/ \E p \in Procs : FbDbRejected(p)
  \/ \E p \in Procs : FbDbFound(p)
  \/ \E p \in Procs : FbSetex(p)
  \/ \E p \in Procs : FbSetexFails(p)
  \/ \E p \in Procs : ReturnFindByApiKey(p)
  \/ \E s \in {"k1"} : DeactivateKey(s)
  \/ \E c \in Customers : DeactivateCustomer(c)

SpecResolverSerial == InitResolver /\ [][NextResolverSerial]_vars

NextResolver ==
  \/ Tick
  \/ \E p \in Procs, s \in Secrets : CallFindByApiKey(p, s)
  \/ \E p \in Procs : FbCacheHit(p)
  \/ \E p \in Procs : FbCacheMiss(p)
  \/ \E p \in Procs : FbCacheGetFails(p)
  \/ \E p \in Procs : FbDbNoRow(p)
  \/ \E p \in Procs : FbDbRejected(p)
  \/ \E p \in Procs : FbDbFound(p)
  \/ \E p \in Procs : FbSetex(p)
  \/ \E p \in Procs : FbSetexFails(p)
  \/ \E p \in Procs : ReturnFindByApiKey(p)
  \/ \E s \in {"k1"} : DeactivateKey(s)
  \/ \E c \in Customers : DeactivateCustomer(c)

SpecResolver == InitResolver /\ [][NextResolver]_vars


(***************************************************************************)
(* The claims about the rate limiter.                                      *)
(***************************************************************************)
\* the call of p has returned and no other call is in flight
LatestCall(p) ==
  /\ rl[p].pc = "done"
  /\ \A q \in Procs \ {p} : rl[q].pc = "idle"

\* C1: under serial calls with a quota q >= 1, the number of calls allowed
\* since the last reset of the window never exceeds q.
C1_SerialAdmitsAtMostQuota ==
  tierRateLimit >= 1 => admittedSinceReset <= tierRateLimit

\* C1's case: a quota of 2 is used up by a reset and an increment, and the
\* next call is denied.
C1_Witness ==
  /\ tierRateLimit = 2
  /\ admittedSinceReset = 2
  /\ \E p \in Procs : rl[p].pc = "done" /\ ~rl[p].allowed

\* C2: for any interleaving of concurrent calls, the calls allowed within
\* one day exceed the quota (q >= 1) by at most one.
C2_ConcurrentOvershootAtMostOne ==
  tierRateLimit >= 1 => \A d \in Days : admittedDay[d] <= tierRateLimit + 1

\* C3: a call (quota >= 1) that reads a stored resetAt <= now (equal
\* included) is allowed with remaining = quota - 1 and leaves count = 1 and a resetAt at
\* a midnight strictly after now, whatever the stored count.
C3_ResetWhenResetAtNotAfterNow ==
  \A p \in Procs :
    (/\ LatestCall(p)
     /\ rl[p].limit >= 1
     /\ rl[p].usage.resetAt # NoVal
     /\ rl[p].usage.resetAt <= rl[p].now0)
    => /\ rl[p].allowed
       /\ rl[p].remaining = rl[p].limit - 1
       /\ rate[rl[p].customer].count = 1
       /\ rate[rl[p].customer].resetAt > rl[p].now0
       /\ rate[rl[p].customer].resetAt % DayLen = 0

\* C5: with quota = 0 every call is allowed.
C5_ZeroQuotaIsUnlimited ==
  tierRateLimit = 0 => \A p \in Procs : rl[p].pc = "done" => rl[p].allowed

(***************************************************************************)
(* The claims about the key resolver.                                      *)
(***************************************************************************)
\* C6: a cached key context was written by a call whose database lookup
\* found the key active, not expired and owned by an active customer; a call
\* that returns no-match has written nothing to the cache.
C6_CacheHoldsOnlyUsableKeys ==
  /\ \A s \in Secrets :
       cache[s].present =>
         /\ cache[s].row.found
         /\ cache[s].row.isActive
         /\ ~(cache[s].row.expiresAt # NoVal
              /\ cache[s].row.expiresAt < cache[s].row.at)
         /\ cache[s].row.customerActive
  /\ \A p \in Procs :
       (fb[p].pc = "done" /\ fb[p].result = "null") => ~fb[p].wrote

\* C6's case: the key was cached while usable, and a later call found its
\* row unusable and returned no-match.
C6_Witness ==
  /\ cache["k1"].present
  /\ \E p \in Procs :
       /\ fb[p].pc = "done" /\ fb[p].result = "null"
       /\ fb[p].secret = "k1" /\ fb[p].row.found

\* when the key stopped being usable: deactivated, or past its expiry
InvalidSince ==
  LET e == apiKeys["k1"].expiresAt
  IN IF deactivatedAt = NoVal THEN e
     ELSE IF e = NoVal \/ deactivatedAt < e THEN deactivatedAt ELSE e

\* C7: a call that starts more than the cache TTL after the key stopped
\* being usable returns no-match.
C7_StaleForAtMostTtl ==
  \A p \in Procs :
    (/\ fb[p].pc = "done" /\ fb[p].secret = "k1"
     /\ InvalidSince # NoVal
     /\ fb[p].start > InvalidSince + CacheTtl)
    => fb[p].result = "null"

\* C8: a call that reached the database and found a usable key returns its
\* context, whether or not the cache read or the cache write failed.
C8_FastStoreFailureNeverMasksKey ==
  \A p \in Procs :
    (/\ fb[p].pc = "done"
     /\ fb[p].row.found /\ fb[p].row.isActive /\ fb[p].row.customerActive
     /\ ~(fb[p].row.expiresAt # NoVal /\ fb[p].row.expiresAt < fb[p].row.at))
    => fb[p].result = "ctx"

(***************************************************************************)
(* The claims about the proxy request.                                     *)
(***************************************************************************)
RateUntouched(p) == rate = rq[p].snap.rate

CacheUntouched(p) == cache = rq[p].snap.cache

NoUpstreamCall(p) == upstreamCalls = rq[p].snap.upstreamCalls

NoUsagePushed(p) ==
  /\ custBuf = rq[p].snap.custBuf
  /\ globalBuf = rq[p].snap.globalBuf
  /\ ul[p].pc = "idle"

Rejected(p, status) == rq[p].pc = "done" /\ rq[p].status = status

\* C4: a request rejected with 401 leaves the customer's rate counter and
\* the key cache as it found them, issues no upstream call and pushes no
\* usage record; a request rejected with 429 leaves the rate counter as it
\* found it, issues no upstream call and pushes no usage record (its key
\* lookup may have populated the key cache).
C4_RejectedRequestEffects ==
  \A p \in Procs :
    /\ Rejected(p, 401)
       => /\ RateUntouched(p)
          /\ CacheUntouched(p)
          /\ NoUpstreamCall(p)
          /\ NoUsagePushed(p)
    /\ Rejected(p, 429)
       => /\ RateUntouched(p)
          /\ NoUpstreamCall(p)
          /\ NoUsagePushed(p)

C4_Witness ==
  \E p \in Procs :
    /\ Rejected(p, 429)
    /\ rq[p].snap.rate[rq[p].ctx.customer].count >= rq[p].ctx.rateLimit
    /\ rq[p].snap.cache[rq[p].secret].present

\* C4 as stated: a request rejected with 401 or 429 leaves the rate
\* counter unchanged, populates no cache entry, issues no upstream call and
\* pushes no usage record.
C4_RejectedRequestHasNoSideEffect ==
  \A p \in Procs :
    (Rejected(p, 401) \/ Rejected(p, 429))
    => /\ RateUntouched(p)
       /\ CacheUntouched(p)
       /\ NoUpstreamCall(p)
       /\ NoUsagePushed(p)

\* the request has completed and no addUsageLog of it is still running
Completed(p) == rq[p].pc = "done" /\ ul[p].pc \in {"idle", "done"}

\* C9: every admitted proxy request that has completed, whatever the
\* outcome of its upstream call, has pushed exactly one usage record to the
\* customer's buffer and one to the global buffer, unless a fast-store
\* command of addUsageLog failed.
C9_AdmittedRequestPushesOneRecord ==
  \A p \in Procs :
    (Completed(p) /\ rq[p].admitted /\ ~ul[p].failed)
    => ul[p].pushedCust = 1 /\ ul[p].pushedAll = 1

(***************************************************************************)
(* The claims about the usage buffers and the drain task.                  *)
(***************************************************************************)
\* nothing is in flight and the global buffer has been drained
Drained ==
  /\ fl.pc = "idle"
  /\ globalBuf = <<>>
  /\ \A p \in Procs : ul[p].pc \in {"idle", "done"}

\* C10: with the durable store available and the global buffer below its
\* cap, every record pushed to the global buffer is inserted exactly once:
\* no record is ever inserted twice, and once the buffer is drained every
\* pushed record has its row.
C10_EveryPushedRecordInsertedOnce ==
  (~dbFailed /\ ~evicted)
  => /\ \A i \in DOMAIN usageRows : usageRows[i] <= 1
     /\ Drained => \A i \in pushed : usageRows[i] = 1

(***************************************************************************)
(* The claims about the invoice engine.                                    *)
(***************************************************************************)
\* C11: no two stored invoices have the same invoiceNumber, also when
\* concurrent generateInvoice calls of different customers read the same
\* latest number.
C11_InvoiceNumbersUnique ==
  \A i, j \in Ids(invoices) :
    i # j => invoices[i].invoiceNumber # invoices[j].invoiceNumber

\* C11's case: a call of one customer computed the number that a call of
\* another customer stored, and its insert was refused.
C11_Witness ==
  \E p \in Procs, i \in Ids(invoices) :
    /\ gi[p].pc = "done"
    /\ gi[p].result = "error"
    /\ invoices[i].invoiceNumber = gi[p].number
    /\ invoices[i].customerId # gi[p].customer

\* C12: there is at most one invoice per (customerId, periodStart,
\* periodEnd), also when generateInvoice runs concurrently for the same
\* customer and period.
C12_OneInvoicePerCustomerPeriod ==
  \A i, j \in Ids(invoices) :
    (/\ invoices[i].customerId = invoices[j].customerId
     /\ invoices[i].periodStart = invoices[j].periodStart
     /\ invoices[i].periodEnd = invoices[j].periodEnd)
    => i = j

\* the call's customer and period had an invoice when the call began
HadInvoice(p) ==
  \E i \in Ids(gi[p].snap.invoices) :
    /\ gi[p].snap.invoices[i].customerId = gi[p].customer
    /\ gi[p].snap.invoices[i].periodStart = gi[p].periodStart
    /\ gi[p].snap.invoices[i].periodEnd = gi[p].periodEnd

\* C13: under serial calls, a generateInvoice for a customer and period
\* that already has an invoice fails with the duplicate error, a call for
\* an unknown customer fails with not-found, and both leave the invoices
\* and the line items (hence the next invoice number) as they found them.
C13_RejectedGenerateInvoiceChangesNothing ==
  \A p \in Procs :
    gi[p].pc = "done"
    => /\ HadInvoice(p) => gi[p].result = "duplicate" /\ Tables = gi[p].snap
       /\ (~HadInvoice(p) /\ gi[p].customer \notin BillCustomers)
          => gi[p].result = "notFound" /\ Tables = gi[p].snap

C13_Witness ==
  \E p \in Procs :
    /\ gi[p].pc = "done"
    /\ gi[p].result = "duplicate"
    /\ HadInvoice(p)
    /\ Len(invoices) = 1

\* C18: under serial calls, a successful generateInvoice returns an invoice
\* with status PENDING, amount the customer's tier price, totalUsage the
\* number of the customer's usage rows with periodStart <= timestamp <
\* periodEnd, and exactly two line items: the plan item (quantity 1,
\* unitPrice = amount = tier price) and the API-calls item (quantity that
\* number, unitPrice 0, amount 0).
C18_GeneratedInvoiceContents ==
  \A p \in Procs :
    (gi[p].pc = "done" /\ gi[p].result = "ok")
    => LET n == Cardinality({k \in DOMAIN usageHistory :
                               /\ usageHistory[k].customer = gi[p].customer
                               /\ gi[p].periodStart <= usageHistory[k].timestamp
                               /\ usageHistory[k].timestamp < gi[p].periodEnd})
           price == IF gi[p].customer = "c1" THEN 29 ELSE 99
       IN  /\ gi[p].ret.found
           /\ gi[p].ret.invoice.status = "PENDING"
           /\ gi[p].ret.invoice.amount = price
           /\ gi[p].ret.invoice.totalUsage = n
           /\ gi[p].ret.invoice.customerId = gi[p].customer
           /\ gi[p].ret.invoice.periodStart = gi[p].periodStart
           /\ gi[p].ret.invoice.periodEnd = gi[p].periodEnd
           /\ Len(gi[p].ret.lineItems) = 2
           /\ \E k \in 1..2 :
                /\ gi[p].ret.lineItems[k].kind = "plan"
                /\ gi[p].ret.lineItems[k].quantity = 1
                /\ gi[p].ret.lineItems[k].unitPrice = price
                /\ gi[p].ret.lineItems[k].amount = price
           /\ \E k \in 1..2 :
                /\ gi[p].ret.lineItems[k].kind = "apiCalls"
                /\ gi[p].ret.lineItems[k].quantity = n
                /\ gi[p].ret.lineItems[k].unitPrice = 0
                /\ gi[p].ret.lineItems[k].amount = 0

\* C18's case: an invoice of a period that holds a usage row, generated
\* while a usage row at the end of the period exists
C18_Witness ==
  \E p \in Procs :
    /\ gi[p].pc = "done"
    /\ gi[p].result = "ok"
    /\ gi[p].ret.invoice.totalUsage = 1
    /\ \E k \in DOMAIN usageHistory :
         /\ usageHistory[k].customer = gi[p].customer
         /\ usageHistory[k].timestamp = gi[p].periodEnd

\* C14: after any sequence of generateInvoice, updateInvoiceStatus,
\* markInvoiceAsPaid and markOverdueInvoices calls, an invoice has a
\* non-null paidAt if and only if its status is PAID.
C14_PaidAtIffPaid ==
  \A i \in Ids(invoices) :
    (invoices[i].paidAt # NoVal) <=> (invoices[i].status = "PAID")

\* the status changes the invoice lifecycle names
LifecycleTransitions ==
  {<<"PENDING", "PAID">>, <<"PENDING", "OVERDUE">>,
   <<"PENDING", "CANCELLED">>, <<"OVERDUE", "PAID">>}

\* C15: the status of an invoice changes only along PENDING->PAID,
\* PENDING->OVERDUE, PENDING->CANCELLED or OVERDUE->PAID; once an invoice
\* is PAID no operation moves it to another status.
C15_StatusFollowsLifecycle ==
  [][\A i \in Ids(invoices) :
       invoices'[i].status # invoices[i].status
       => <<invoices[i].status, invoices'[i].status>>
            \in LifecycleTransitions]_vars

\* this step is a markInvoiceAsPaid that directly follows a
\* markInvoiceAsPaid which found and paid the same invoice
SecondMarkPaid ==
  /\ lastOp' # lastOp
  /\ lastOp.op = "markPaid"
  /\ lastOp'.op = "markPaid"
  /\ lastOp'.id = lastOp.id
  /\ lastOp.id \in Ids(invoices)
  /\ invoices[lastOp.id].status = "PAID"
  /\ invoices[lastOp.id].paidAt # NoVal

\* C16: markInvoiceAsPaid is idempotent: a second call on the same invoice,
\* at a later time, leaves the status PAID and leaves paidAt at the value
\* the first call set.
C16_MarkPaidIdempotent ==
  [][SecondMarkPaid
     => /\ invoices'[lastOp.id].status = "PAID"
        /\ invoices'[lastOp.id].paidAt = invoices[lastOp.id].paidAt]_vars

\* this step is a markOverdueInvoices call
MarkOverdueStep == lastOp' # lastOp /\ lastOp'.op = "markOverdue"

\* an invoice fell due after the previous markOverdueInvoices call
BecameDueSinceLastPass ==
  \E i \in Ids(invoices) :
    lastOp.at <= invoices[i].dueDate /\ invoices[i].dueDate < now

\* C17: markOverdueInvoices changes to OVERDUE exactly the invoices that
\* are PENDING with dueDate < now, returns how many it changed, and leaves
\* every other invoice and every other field untouched; applied a second
\* time with no invoice becoming due in between it returns 0 and changes
\* nothing.
C17_MarkOverdueEffect ==
  [][MarkOverdueStep
     => /\ DOMAIN invoices' = DOMAIN invoices
        /\ \A i \in Ids(invoices) :
             invoices'[i] =
               IF invoices[i].status = "PENDING" /\ invoices[i].dueDate < now
               THEN [invoices[i] EXCEPT !.status = "OVERDUE"]
               ELSE invoices[i]
        /\ lastOp'.count =
             Cardinality({i \in Ids(invoices) : invoices'[i] # invoices[i]})
        /\ lineItems' = lineItems
        /\ usageHistory' = usageHistory
        /\ (lastOp.op = "markOverdue" /\ ~BecameDueSinceLastPass)
           => lastOp'.count = 0 /\ invoices' = invoices]_vars

\* a pass has just changed an overdue invoice and left a pending one
C17_Witness ==
  /\ lastOp.op = "markOverdue"
  /\ lastOp.count >= 1
  /\ \E i \in Ids(invoices) : invoices[i].status = "OVERDUE"
  /\ \E i \in Ids(invoices) :
       invoices[i].status = "PENDING" /\ invoices[i].dueDate = lastOp.at

\* C19: for every customer whose createdAt is <= now, with no invoice or
\* with a newest invoice whose periodEnd is at any instant <= now,
\* getCurrentBillingPeriod returns a window with periodStart <= now <
\* periodEnd; it fails for no such now.
C19_BillingPeriodCoversNow ==
  (/\ bp.called
   /\ CustomerExists(bp.customer)
   /\ CustomerCreatedAt(bp.customer) <= bp.at
   /\ (bp.lastEnd = NoVal \/ bp.lastEnd <= bp.at))
  => /\ bp.result.error = "none"
     /\ bp.result.periodStart <= bp.at
     /\ bp.at < bp.result.periodEnd

\* C20: the daily invoice-close pass generates an invoice for an active
\* customer only when that customer's current billing period has
\* daysRemaining < 1 and no invoice exists yet for that period; a customer
\* whose current period has daysRemaining >= 1 gets no invoice from the
\* pass.
C20_DailyPassClosesEndingPeriods ==
  (dj.pc = "loop" /\ dj.result = "ok")
  => /\ dj.period.daysRemaining < 1
     /\ BillCustomerActive(dj.customer)

\* C21: the forwarder sends every admitted request to the upstream base
\* URL of the developer that owns the authenticated customer; the
\* configured default URL is used only when the developer has none (and
\* Developer.apiUrl is NOT NULL).
C21_ForwardedToOwnersUrl ==
  \A p \in Procs :
    rq[p].upstream # "none"
    => rq[p].target = DeveloperApiUrl(rq[p].ctx.customer)

\* C22: an admitted request with any of the methods GET, POST, PUT, DELETE,
\* PATCH, HEAD or OPTIONS is forwarded to the upstream; none of them is
\* answered with a gateway error without an upstream call.
C22_EveryMethodForwarded ==
  \A p \in Procs :
    (rq[p].pc = "done" /\ rq[p].admitted /\ rq[p].method \in Methods)
    => rq[p].upstream # "none"

\* C28: when two concurrent generateInvoice calls allocate the same invoice
\* number, the call that hits the uniqueness violation re-reads the maximum
\* and retries: both calls end with a stored invoice and neither surfaces
\* an error to its caller.
C28_NumberCollisionRecovered ==
  \A p \in Procs :
    (gi[p].pc = "done" /\ gi[p].number # NoNumber)
    => /\ gi[p].result = "ok"
       /\ \E i \in Ids(invoices) :
            /\ invoices[i].customerId = gi[p].customer
            /\ invoices[i].periodStart = gi[p].periodStart
            /\ invoices[i].periodEnd = gi[p].periodEnd

\* C30: when the customer's newest invoice has periodEnd > now,
\* getCurrentBillingPeriod returns exactly the result (periodStart,
\* periodEnd, daysRemaining and cycleDay) that it returns for the same
\* customer and the same now when the customer has no invoice at all.
C30_OpenInvoiceSameAsNoInvoice ==
  (/\ bp.called
   /\ CustomerExists(bp.customer)
   /\ bp.lastEnd # NoVal
   /\ bp.lastEnd > bp.at)
  => bp.result = BillingPeriod(CustomerCreatedAt(bp.customer), NoVal, bp.at)

(***************************************************************************)
(* The claims about the drain and the usage buffers.                       *)
(***************************************************************************)
\* the previous tick failed on its bulk insert and nothing has been pushed
\* since it read its batch
FailedAndQuiet == fl.failed /\ pushed = fl.pushedThen

HeadBatch == LRange(globalBuf, FlushBatch - 1)

\* C24: when the batch read by the drain contains a malformed entry, the
\* drain skips that entry and still inserts and trims the well-formed
\* entries of the batch, so a malformed entry never blocks later ticks.
C24_MalformedEntrySkipped ==
  [][(/\ fl.pc = "lrange"
      /\ fl'.pc # "lrange"
      /\ \E k \in DOMAIN HeadBatch : ~Parses(HeadBatch[k]))
     => /\ fl'.pc = "createMany"
        /\ fl'.batch = SelectSeq(HeadBatch, Parses)]_vars

\* the n entries that have been longest in a list pushed at its head
OldestEntries(list, n) ==
  {list[k] : k \in (Len(list) - Min(n, Len(list)) + 1)..Len(list)}

\* C26: each drain tick processes the oldest entries still present in the
\* global buffer (up to the batch size), so that no record waits in the
\* buffer behind newer ones until the cap evicts it.
C26_DrainReadsOldest ==
  [][(fl.pc = "lrange" /\ fl'.pc = "createMany")
     => {fl'.batch[k] : k \in DOMAIN fl'.batch}
          = OldestEntries(globalBuf, FlushBatch)]_vars

\* the lists the call of handler p pushes to
CustomerList(p) == custBuf[ul[p].rec.customer]

\* both lists are within their caps
WithinCaps(p) ==
  /\ Len(CustomerList(p)) <= MaxLogsPerCustomer
  /\ Len(globalBuf) <= MaxLogsTotal

\* the record of the call is at the head of both lists
AtHeadOfBoth(p) ==
  /\ CustomerList(p) # <<>> /\ Head(CustomerList(p)) = ul[p].rec
  /\ globalBuf # <<>> /\ Head(globalBuf) = ul[p].rec

\* a list that gets shorter keeps its head part: the entries dropped are
\* the oldest
ShrinkDropsOldest ==
  /\ \A c \in Customers :
       Len(custBuf'[c]) < Len(custBuf[c])
       => custBuf'[c] = SubSeq(custBuf[c], 1, Len(custBuf'[c]))
  /\ Len(globalBuf') < Len(globalBuf)
     => globalBuf' = SubSeq(globalBuf, 1, Len(globalBuf'))

LargestSequence(m) == Max({ParseInt(x) : x \in SequencesOfMonth(m)})

\* C29: under serial generation generateInvoiceNumber returns the number
\* of the generation month whose sequence is 1 if no invoice of the month
\* exists and otherwise one more than the numerically largest sequence of
\* the month, for any number of invoices issued in the month, also once
\* the sequence has passed its padded width.
C29_SequenceFollowsLargest ==
  \A p \in Procs :
    gi[p].pc = "create"
    => gi[p].number =
         [month |-> GetMonth(now),
          seq |-> FormatSequence(
                    IF SequencesOfMonth(GetMonth(now)) = {} THEN 1
                    ELSE LargestSequence(GetMonth(now)) + 1)]

\* every record has been pushed and no addUsageLog call is in flight
PushesStopped ==
  /\ nextId > MaxRecords
  /\ \A p \in Procs : UlFree(p)

\* record r is an entry of the global buffer
InGlobalBuffer(r) == \E k \in DOMAIN globalBuf : globalBuf[k].id = r

\* C25: if pushes stop while the global buffer holds well-formed records
\* and the durable store stays available, then after finitely many drain
\* ticks the buffer is empty and every one of those records is in the
\* durable table.
C25_QuietBufferDrained ==
  \A r \in 1..MaxRecords :
    (PushesStopped /\ InGlobalBuffer(r))
      ~> (globalBuf = <<>> /\ usageRows[r] >= 1)

(***************************************************************************)
(* The claims about month arithmetic, the bulk generation, the counter of  *)
(* the limiter and the invoices of a customer.                             *)
(***************************************************************************)
\* one month after t with the day of the month kept, or the last day of
\* the target month when that month is shorter
ClampedMonthPlusOne(t) ==
  LET m == GetMonth(t) + 1
  IN  MakeDate(m,
               IF GetDate(t) > MonthLength(m) THEN MonthLength(m)
               ELSE GetDate(t),
               TimeOfDay(t))

\* C31: advancing a billing period by one month keeps the day of the month
\* of periodStart, except when the target month is shorter, in which case
\* periodEnd is the last day of that month.
C31_PeriodEndClampedToMonth ==
  (bp.called /\ bp.result.error = "none")
  => bp.result.periodEnd = ClampedMonthPlusOne(bp.result.periodStart)

\* C37: every period returned by getCurrentBillingPeriod has
\* daysRemaining >= 1.
C37_DaysRemainingAtLeastOne ==
  (bp.called /\ bp.result.error = "none")
  => bp.result.daysRemaining >= 1

\* a window is returned on its last day, less than one day before its end
C37_Witness ==
  /\ bp.called
  /\ bp.result.error = "none"
  /\ bp.result.periodEnd - bp.at < DayLen
  /\ bp.result.daysRemaining = 1

\* the counters of the bulk result agree with its lists, and no more
\* customers are counted than were selected
BulkCountsAgree ==
  /\ mj.successful = Len(mj.invoices)
  /\ mj.failed = Len(mj.errors)
  /\ mj.successful + mj.failed + Cardinality(mj.todo) <= mj.selected
  /\ mj.pc = "done" => mj.todo = {}

\* a step of the bulk job in which a customer fails records that customer
\* with the error, counts it, and leaves the remaining customers to the
\* loop
BulkFailureStep ==
  Len(mj'.errors) > Len(mj.errors)
  => /\ mj'.errors = Append(mj.errors,
                            [customerId |-> mj'.customer,
                             error |-> mj'.errors[Len(mj'.errors)].error])
     /\ mj'.errors[Len(mj'.errors)].error # "none"
     /\ mj'.failed = mj.failed + 1
     /\ mj'.successful = mj.successful
     /\ mj'.pc = "loop"
     /\ mj'.todo = mj.todo \ {mj'.customer}

\* C32: in generateMonthlyInvoices a failure for one customer, in the
\* period computation or in invoice generation, is recorded as
\* {customerId, error}, increments failed and does not stop the loop; on
\* return successful is the number of returned invoices, failed the number
\* of errors, and successful + failed is at most the number of selected
\* active customers.
C32_BulkFailuresRecorded ==
  /\ []BulkCountsAgree
  /\ [][BulkFailureStep]_vars

\* a bulk generation returns with one customer failed and one invoiced
C32_Witness ==
  /\ mj.pc = "done"
  /\ mj.failed = 1
  /\ mj.successful = 1
  /\ mj.selected = 2

\* no checkAndIncrement call is between its read and its last write
NoCallInFlight == \A p \in Procs : rl[p].pc \in {"idle", "done"}

\* C33: within one daily window and for any interleaving of concurrent
\* checkAndIncrement calls of one customer, the stored count equals the
\* number of requests admitted since the last reset (here in the first
\* window, which begins with an empty hash).
C33_CountEqualsAdmitted ==
  (/\ NoCallInFlight
   /\ ~HashIsEmpty(rate["c1"])
   /\ now < NextMidnight(0))
  => rate["c1"].count = admittedDay[DayOf(0)]

\* C34: under serial admission within one window, the remaining reported
\* by an allowed checkAndIncrement equals the quota minus the stored count
\* after the call (so that it is followed by exactly that many further
\* allowed calls before the first denial).
C34_RemainingIsQuotaMinusCount ==
  \A p \in Procs :
    (LatestCall(p) /\ rl[p].allowed /\ rl[p].limit >= 1)
    => rl[p].remaining = rl[p].limit - rate[rl[p].customer].count

\* the periods of invoices i and j have an instant in common
PeriodsOverlap(i, j) ==
  /\ invoices[i].periodStart < invoices[j].periodEnd
  /\ invoices[j].periodStart < invoices[i].periodEnd

\* C35: for one customer, any two invoices produced by the scheduled jobs
\* over any sequence of runs have disjoint periods [periodStart,
\* periodEnd).
C35_ScheduledPeriodsDisjoint ==
  \A i, j \in Ids(invoices) :
    (i # j /\ invoices[i].customerId = invoices[j].customerId)
    => ~PeriodsOverlap(i, j)

\* C36: successive billing periods of a customer leave no gap: the period
\* computed after an invoiced period [s, e), within one month of e, starts
\* exactly at e.
C36_NextPeriodStartsAtLastEnd ==
  (/\ bp.called
   /\ bp.result.error = "none"
   /\ bp.lastEnd # NoVal
   /\ bp.lastEnd <= bp.at
   /\ bp.at < SetMonthPlusOne(bp.lastEnd))
  => bp.result.periodStart = bp.lastEnd

\* C38: for every stored invoice, totalUsage equals the quantity of its
\* 'API Calls' line item, also when the drain inserts usage records of the
\* customer and period while generateInvoice is running.
C38_TotalUsageMatchesLineItem ==
  \A k \in DOMAIN lineItems :
    lineItems[k].kind = "apiCalls"
    => lineItems[k].quantity = invoices[lineItems[k].invoiceId].totalUsage

\* no generateInvoice call is between its steps
NoGenerationRunning == \A p \in Procs : gi[p].pc \in {"idle", "done"}

\* C39: generateInvoice is all-or-nothing: if creating the line items
\* fails after the invoice row was inserted, no invoice row remains, so
\* every stored invoice has its two line items.
C39_InvoiceHasItsLineItems ==
  NoGenerationRunning
  => \A i \in Ids(invoices) : Len(LineItemsOf(i)) = 2

\* C40: on the customer-facing billing mount of the gateway, a request
\* authenticated as customer A never reads or changes an invoice of a
\* different customer B: the invoice a by-id, status-update or mark-paid
\* request finds (and returns, after its update) is the caller's own, and
\* so is every invoice of the list.
C40_OnlyOwnInvoices ==
  /\ br.reply.found => invoices[br.id].customerId = br.caller
  /\ \A i \in br.listed : invoices[i].customerId = br.caller

=============================================================================
